---- MODULE Spec2Model ----
(***************************************************************************)
(* Model of the JSON-Schema-to-TypeScript compiler of pokemon-behaviors    *)
(* (types/scripts/generateComponents.ts with lib/schemaRepo.ts).           *)
(*                                                                         *)
(* JSON values are tagged records; text is a TLA+ string and is built by   *)
(* the same concatenations the source performs.  Every function that can   *)
(* touch the module-level schemaCache or throw takes the store `st' and    *)
(* returns it together with its value and an exception flag `ex'.          *)
(***************************************************************************)
EXTENDS Integers, Sequences, FiniteSets, TLC

(***************************************************************************)
(* Bounds of the model                                                     *)
(***************************************************************************)
MaxCallDepth == 21   \* largest depth argument a call is examined with
MaxBranches == 3     \* longest oneOf/anyOf list
MaxProps == 3        \* most properties of an object schema
MaxComponents == 3   \* most properties of a root document that is compiled
MaxItems == 3        \* most items of a tuple
MaxExamples == 2     \* most examples of a property
MaxCalls == 3        \* most calls of ensureRepoReady on one cache directory

(***************************************************************************)
(* JSON values (the result of JSON.parse)                                  *)
(***************************************************************************)
JStr(s) == [t |-> "string", v |-> s]
JNum(n) == [t |-> "number", v |-> n]
JBool(b) == [t |-> "boolean", v |-> b]
JNull == [t |-> "null"]
JArr(xs) == [t |-> "array", v |-> xs]
\* an object keeps its entries <<key, value>> in enumeration order
JObj(es) == [t |-> "object", v |-> es]
\* the value of a field that is not there
Undefined == [t |-> "undefined"]
\* a value inherited from a prototype (a method such as toString)
Native == [t |-> "function"]

Has(o, k) == o.t = "object" /\ \E i \in 1..Len(o.v) : o.v[i][1] = k

Get(o, k) ==
  IF Has(o, k)
  THEN o.v[CHOOSE i \in 1..Len(o.v) : o.v[i][1] = k][2]
  ELSE Undefined

\* JavaScript truthiness
Truthy(x) ==
  CASE x.t = "undefined" -> FALSE
    [] x.t = "null" -> FALSE
    [] x.t = "boolean" -> x.v
    [] x.t = "number" -> x.v # 0
    [] x.t = "string" -> x.v # ""
    [] OTHER -> TRUE

\* x === undefined || x === null
Nullish(x) == x.t \in {"undefined", "null"}

\* x === s for a string literal s
IsStr(x, s) == x.t = "string" /\ x.v = s

(***************************************************************************)
(* String primitives                                                       *)
(***************************************************************************)
Ch(s, i) == SubSeq(s, i, i)

StartsWith(s, p) == Len(s) >= Len(p) /\ SubSeq(s, 1, Len(p)) = p

Slice(s, n) == SubSeq(s, n + 1, Len(s))

RECURSIVE IndexFrom(_, _, _)
\* first position >= i at which sub occurs in s, 0 if none
IndexFrom(s, sub, i) ==
  IF i + Len(sub) - 1 > Len(s) THEN 0
  ELSE IF SubSeq(s, i, i + Len(sub) - 1) = sub THEN i
  ELSE IndexFrom(s, sub, i + 1)

IndexOf(s, sub) == IndexFrom(s, sub, 1)

RECURSIVE Split(_, _)
\* String.prototype.split with a non-empty separator
Split(s, sep) ==
  LET i == IndexOf(s, sep)
  IN IF i = 0 THEN <<s>>
     ELSE <<SubSeq(s, 1, i - 1)>> \o Split(Slice(s, i + Len(sep) - 1), sep)

RECURSIVE Join(_, _)
Join(xs, sep) ==
  IF Len(xs) = 0 THEN ""
  ELSE IF Len(xs) = 1 THEN xs[1]
  ELSE xs[1] \o sep \o Join(Tail(xs), sep)

RECURSIVE ReplaceAll(_, _, _)
\* String.prototype.replace with a global literal pattern
ReplaceAll(s, pat, by) ==
  LET i == IndexOf(s, pat)
  IN IF i = 0 THEN s
     ELSE SubSeq(s, 1, i - 1) \o by \o ReplaceAll(Slice(s, i + Len(pat) - 1), pat, by)

RECURSIVE Repeat(_, _)
Repeat(s, n) == IF n <= 0 THEN "" ELSE s \o Repeat(s, n - 1)

Chars(s) == {Ch(s, i) : i \in 1..Len(s)}

Lower == "abcdefghijklmnopqrstuvwxyz"
Upper == "ABCDEFGHIJKLMNOPQRSTUVWXYZ"
Digits == "0123456789"

Max(a, b) == IF a >= b THEN a ELSE b

(***************************************************************************)
(* path.posix                                                              *)
(***************************************************************************)
RECURSIVE NormalizeSegs(_, _, _)
\* resolves `.', `..' and empty segments; acc is the stack built so far
NormalizeSegs(segs, acc, abs) ==
  IF Len(segs) = 0 THEN acc
  ELSE LET h == Head(segs)
           r == Tail(segs)
       IN IF h = "" \/ h = "." THEN NormalizeSegs(r, acc, abs)
          ELSE IF h = ".."
               THEN IF Len(acc) > 0 /\ acc[Len(acc)] # ".."
                    THEN NormalizeSegs(r, SubSeq(acc, 1, Len(acc) - 1), abs)
                    ELSE IF abs THEN NormalizeSegs(r, acc, abs)
                         ELSE NormalizeSegs(r, Append(acc, ".."), abs)
               ELSE NormalizeSegs(r, Append(acc, h), abs)

PosixNormalize(p) ==
  IF p = "" THEN "."
  ELSE LET abs == StartsWith(p, "/")
           trail == Ch(p, Len(p)) = "/"
           body == Join(NormalizeSegs(Split(p, "/"), <<>>, abs), "/")
           b2 == IF body = "" /\ ~abs THEN "." ELSE body
           b3 == IF b2 # "" /\ trail THEN b2 \o "/" ELSE b2
       IN IF abs THEN "/" \o b3 ELSE b3

PosixJoin(a, b) ==
  LET parts == SelectSeq(<<a, b>>, LAMBDA x : x # "")
  IN IF Len(parts) = 0 THEN "." ELSE PosixNormalize(Join(parts, "/"))

RECURSIVE LastIndexOf(_, _, _)
LastIndexOf(s, c, i) ==
  IF i < 1 THEN 0 ELSE IF Ch(s, i) = c THEN i ELSE LastIndexOf(s, c, i - 1)

PosixDirname(p) ==
  IF p = "" THEN "."
  ELSE LET i == LastIndexOf(p, "/", Len(p) - 1)
       IN IF i = 0 THEN "."
          ELSE IF i = 1 THEN "/"
          ELSE SubSeq(p, 1, i - 1)

(***************************************************************************)
(* State                                                                   *)
(***************************************************************************)
VARIABLES
  files,        \* the extracted repository: path -> [status, doc]
  schemaCache,  \* the module-level Map of loaded documents
  reads,        \* history: the paths handed to readFileSync, in order
  pc,           \* position of main, or of the function under call
  components,   \* extractComponents: results
  idx,          \* extractComponents: number of properties already processed
  output,       \* the text written to OUTPUT_FILE, NoOutput before
  call,         \* the call under examination: [fn, args]
  ret           \* what that call returned

vars == <<files, schemaCache, reads, pc, components, idx, output, call, ret>>

ROOT_SCHEMA == "source/behavior/entities/format/components.json"
MAX_DEPTH == 20

NoOutput == [t |-> "undefined"]

(***************************************************************************)
(* Schema Store                                                            *)
(***************************************************************************)
\* the store threaded through a call: the cache, and the history of the call
Store(cache, rd) == [cache |-> cache, reads |-> rd, maxd |-> -1, log |-> <<>>]

\* a store that keeps its own trimmed version of what was parsed
CachePutTrimmed(cache, p, node) ==
  [q \in (DOMAIN cache) \cup {p} |->
     IF q = p
     THEN (IF node.t = "object"
           THEN JObj(SelectSeq(node.v, LAMBDA e : e[1] # "definitions"))
           ELSE node)
     ELSE cache[q]]

\* schemaCache.set(normalized, schema)
CachePut(cache, p, node) ==
  [q \in (DOMAIN cache) \cup {p} |-> IF q = p THEN node ELSE cache[q]]

\* readFileSync followed by JSON.parse: either throws
ReadOk(p) == p \in DOMAIN files /\ files[p].status = "ok"

\* the load without the cache test: every call reads the file
loadSchemaContextUncached(relativePath, st) ==
  LET s1 == [st EXCEPT !.reads = Append(@, relativePath)]
  IN IF ReadOk(relativePath)
     THEN LET s2 == [s1 EXCEPT !.cache =
                        CachePut(@, relativePath, files[relativePath].doc)]
          IN [ex |-> FALSE, st |-> s2,
              ctx |-> [schema |-> s2.cache[relativePath], path |-> relativePath]]
     ELSE [ex |-> TRUE, st |-> s1,
           ctx |-> [schema |-> Undefined, path |-> relativePath]]

\* a load served from the cache looks the document up under another key and
\* finds nothing
loadSchemaContextHitFindsNothing(relativePath, st) ==
  IF relativePath \notin DOMAIN st.cache
  THEN loadSchemaContextUncached(relativePath, st)
  ELSE [ex |-> FALSE, st |-> st,
        ctx |-> [schema |-> Undefined, path |-> relativePath]]

\* a load served from the cache hands out the entry of the root document
loadSchemaContextHitIsRoot(relativePath, st) ==
  IF relativePath \notin DOMAIN st.cache
  THEN loadSchemaContextUncached(relativePath, st)
  ELSE [ex |-> FALSE, st |-> st,
        ctx |-> [schema |-> IF ROOT_SCHEMA \in DOMAIN st.cache
                            THEN st.cache[ROOT_SCHEMA] ELSE Undefined,
                 path |-> relativePath]]

loadSchemaContext(relativePath, st) ==
  IF relativePath \notin DOMAIN st.cache
  THEN LET s1 == [st EXCEPT !.reads = Append(@, relativePath)]
       IN IF ReadOk(relativePath)
          THEN LET s2 == [s1 EXCEPT !.cache =
                             CachePut(@, relativePath, files[relativePath].doc)]
               IN [ex |-> FALSE, st |-> s2,
                   ctx |-> [schema |-> s2.cache[relativePath], path |-> relativePath]]
          ELSE [ex |-> TRUE, st |-> s1,
                ctx |-> [schema |-> Undefined, path |-> relativePath]]
  ELSE [ex |-> FALSE, st |-> st,
        ctx |-> [schema |-> st.cache[relativePath], path |-> relativePath]]

(***************************************************************************)
(* Pointer Resolver                                                        *)
(***************************************************************************)
\* names every object inherits from Object.prototype (a representative few)
ObjectPrototypeKeys == {"constructor", "toString", "valueOf", "hasOwnProperty"}

IndexKeys(xs) == {ToString(i) : i \in 0..(Len(xs) - 1)}

\* current && typeof current === "object" && part in current
InOperator(current, part) ==
  CASE current.t = "object" -> Has(current, part) \/ part \in ObjectPrototypeKeys
    [] current.t = "array" ->
         part \in IndexKeys(current.v) \cup {"length"} \cup ObjectPrototypeKeys
    [] OTHER -> FALSE

\* current[part], given InOperator(current, part)
Member(current, part) ==
  CASE current.t = "object" /\ Has(current, part) -> Get(current, part)
    [] current.t = "array" /\ part \in IndexKeys(current.v) ->
         current.v[1 + CHOOSE i \in 0..(Len(current.v) - 1) : ToString(i) = part]
    [] current.t = "array" /\ part = "length" -> JNum(Len(current.v))
    [] OTHER -> Native

\* the tilde decoded before the solidus
UnescapeTildeFirst(part) ==
  ReplaceAll(ReplaceAll(ReplaceAll(part, "~0", "~"), "~1", "/"), "%3A", ":")

Unescape(part) ==
  ReplaceAll(ReplaceAll(ReplaceAll(part, "~1", "/"), "~0", "~"), "%3A", ":")

RECURSIVE Walk(_, _)
\* the for loop of getByPointer; JNull is the null it returns
Walk(current, parts) ==
  IF Len(parts) = 0 THEN current
  ELSE IF InOperator(current, Head(parts))
       THEN Walk(Member(current, Head(parts)), Tail(parts))
       ELSE JNull

\* only `#' stands for the root; any other pointer is walked from its second
\* character on
getByPointerStrict(schema, pointer) ==
  IF pointer = "#" THEN schema
  ELSE LET split == Split(Slice(pointer, 1), "/")
           parts == [i \in 1..Len(split) |-> Unescape(split[i])]
       IN Walk(schema, parts)

getByPointer(schema, pointer) ==
  IF ~StartsWith(pointer, "#/") THEN schema
  ELSE LET split == Split(Slice(pointer, 2), "/")
           parts == [i \in 1..Len(split) |-> Unescape(split[i])]
       IN Walk(schema, parts)

(***************************************************************************)
(* Reference Resolver                                                      *)
(***************************************************************************)
NullCtx == [schema |-> JNull, path |-> ""]

\* ref.split("#", 2): at most two pieces, the rest is dropped
SplitRef(ref) ==
  LET all == Split(ref, "#")
  IN [refPath |-> all[1],
      hasFragment |-> Len(all) >= 2,
      fragment |-> IF Len(all) >= 2 THEN all[2] ELSE ""]

\* the result a call of resolveRef returns, entered in the history of the call
Logged(ref, context, res) ==
  [res EXCEPT !.st.log =
     Append(@, [ref |-> ref, context |-> context, ok |-> res.ok, ctx |-> res.ctx])]

\* a pointer that finds nothing raises an error instead of yielding null
TargetAtThrowing(target, path, st) ==
  IF Truthy(target)
  THEN [ex |-> FALSE, ok |-> TRUE, st |-> st,
        ctx |-> [schema |-> target, path |-> path]]
  ELSE [ex |-> TRUE, ok |-> FALSE, st |-> st, ctx |-> NullCtx]

\* target ? { schema: target, path } : null; ok = FALSE stands for null
TargetAt(target, path, st) ==
  IF Truthy(target)
  THEN [ex |-> FALSE, ok |-> TRUE, st |-> st,
        ctx |-> [schema |-> target, path |-> path]]
  ELSE [ex |-> FALSE, ok |-> FALSE, st |-> st, ctx |-> NullCtx]

\* the cross-file branch that hands back the loaded document whatever the
\* fragment says
FromLoadedWholeDocument(sp, normalized, targetContext) ==
  IF targetContext.ex
  THEN [ex |-> TRUE, ok |-> FALSE, st |-> targetContext.st, ctx |-> NullCtx]
  ELSE [ex |-> FALSE, ok |-> TRUE, st |-> targetContext.st,
        ctx |-> targetContext.ctx]

\* the cross-file branch, once the document is loaded (or the load threw)
FromLoaded(sp, normalized, targetContext) ==
  IF targetContext.ex
  THEN [ex |-> TRUE, ok |-> FALSE, st |-> targetContext.st, ctx |-> NullCtx]
  ELSE IF sp.hasFragment /\ StartsWith(sp.fragment, "/")
  THEN TargetAt(getByPointer(targetContext.ctx.schema, "#" \o sp.fragment),
                normalized, targetContext.st)
  ELSE [ex |-> FALSE, ok |-> TRUE, st |-> targetContext.st,
        ctx |-> targetContext.ctx]

\* the directory and the relative path put together and left as they are
NormalizedTargetJoined(contextPath, refPath) ==
  PosixDirname(contextPath) \o "/" \o refPath

\* path.posix.normalize(path.posix.join(path.posix.dirname(context.path), refPath))
NormalizedTarget(contextPath, refPath) ==
  PosixNormalize(PosixJoin(PosixDirname(contextPath), refPath))

resolveRef(ref, context, st) ==
  LET crossFile(sp, normalized) ==
        FromLoaded(sp, normalized, loadSchemaContext(normalized, st))
      split(sp) == crossFile(sp, NormalizedTarget(context.path, sp.refPath))
      entered(res) == IF res.ex THEN res ELSE Logged(ref, context, res)
  IN entered(IF StartsWith(ref, "#/")
             THEN TargetAt(getByPointer(context.schema, ref), context.path, st)
             ELSE IF StartsWith(ref, "#")
             THEN [ex |-> FALSE, ok |-> TRUE, st |-> st, ctx |-> context]
             ELSE split(SplitRef(ref)))

RECURSIVE resolveSchema(_, _, _, _)
\* seen is the Set the recursion shares; the result is [ex, st, ctx]
resolveSchema(schema, context, seen, st) ==
  LET asIs(s) == [ex |-> FALSE, st |-> s,
                  ctx |-> [schema |-> schema, path |-> context.path]]
      follow(key, target) ==
        IF target.ex THEN [ex |-> TRUE, st |-> target.st, ctx |-> NullCtx]
        ELSE IF ~target.ok THEN asIs(target.st)
        ELSE resolveSchema(target.ctx.schema, target.ctx, seen \cup {key}, target.st)
      keyed(ref, key) ==
        IF key \in seen THEN asIs(st)
        ELSE follow(key, resolveRef(ref, context, st))
      referring(ref) ==
        IF ~Truthy(ref) THEN asIs(st)
        ELSE keyed(ref.v, context.path \o "::" \o ref.v)
  IN referring(Get(schema, "$ref"))

\* a visited-set that outlives the call: it still holds the key the component
\* before this one left in it
ResolveTopLevelStale(schema, context, st) ==
  resolveSchema(schema, context,
                IF Truthy(Get(schema, "$ref"))
                THEN {context.path \o "::" \o Get(schema, "$ref").v} ELSE {},
                st)

\* resolveSchema(schema, context): seen takes its default, new Set<string>()
ResolveTopLevel(schema, context, st) == resolveSchema(schema, context, {}, st)

(***************************************************************************)
(* Type Synthesizer                                                        *)
(***************************************************************************)
RECURSIVE JSONStringify(_)
\* JSON.stringify of a parsed value (the strings of the model need no escapes)
JSONStringify(x) ==
  CASE x.t = "string" -> "\"" \o x.v \o "\""
    [] x.t = "number" -> ToString(x.v)
    [] x.t = "boolean" -> IF x.v THEN "true" ELSE "false"
    [] x.t = "null" -> "null"
    [] x.t = "array" ->
         "[" \o Join([i \in 1..Len(x.v) |-> JSONStringify(x.v[i])], ",") \o "]"
    [] x.t = "object" ->
         "{" \o Join([i \in 1..Len(x.v) |->
                        "\"" \o x.v[i][1] \o "\":" \o JSONStringify(x.v[i][2])], ",")
             \o "}"
    [] OTHER -> "undefined"

\* typeof value === "string" ? `'${value}'` : JSON.stringify(value)
Literal(value) ==
  IF value.t = "string" THEN "'" \o value.v \o "'" ELSE JSONStringify(value)

RECURSIVE Dedupe(_, _)
\* [...new Set(xs)]: first occurrences, in order
Dedupe(xs, acc) ==
  IF Len(xs) = 0 THEN acc
  ELSE IF \E i \in 1..Len(acc) : acc[i] = Head(xs)
       THEN Dedupe(Tail(xs), acc)
       ELSE Dedupe(Tail(xs), Append(acc, Head(xs)))

\* types.filter(Boolean)
FilterBoolean(types) == SelectSeq(types, LAMBDA x : x # "")

wrapUnion(types) ==
  LET unique == Dedupe(FilterBoolean(types), <<>>)
  IN IF Len(unique) = 0 THEN "unknown"
     ELSE IF Len(unique) = 1 THEN unique[1]
     ELSE Join(unique, " | ")

\* an annotation that shows the title also when the description repeats it
generateJSDocTitleAlways(schema, depth) ==
  LET title == Get(schema, "title")
      description == Get(schema, "description")
      default == Get(schema, "default")
      examples == Get(schema, "examples")
      hasExamples == examples.t = "array" /\ Len(examples.v) > 0
      indent == Repeat("  ", depth)
      descLines == IF Truthy(description)
                   THEN LET ls == Split(description.v, "\n")
                        IN [i \in 1..Len(ls) |-> indent \o " * " \o ls[i]]
                   ELSE <<>>
      lines ==
        IF Truthy(title) \/ Truthy(description) \/ default.t # "undefined" \/ hasExamples
        THEN <<indent \o "/**">>
             \o (IF Truthy(title) THEN <<indent \o " * " \o title.v>> ELSE <<>>)
             \o descLines
             \o (IF default.t # "undefined"
                 THEN <<indent \o " * @default " \o JSONStringify(default)>> ELSE <<>>)
             \o (IF hasExamples
                 THEN <<indent \o " * @example " \o JSONStringify(examples.v[1])>>
                 ELSE <<>>)
             \o <<indent \o " */">>
        ELSE <<>>
  IN Join(lines, "\n")

generateJSDoc(schema, depth) ==
  LET title == Get(schema, "title")
      description == Get(schema, "description")
      default == Get(schema, "default")
      examples == Get(schema, "examples")
      hasExamples == examples.t = "array" /\ Len(examples.v) > 0
      indent == Repeat("  ", depth)
      descLines == IF Truthy(description)
                   THEN LET ls == Split(description.v, "\n")
                        IN [i \in 1..Len(ls) |-> indent \o " * " \o ls[i]]
                   ELSE <<>>
      lines ==
        IF Truthy(title) \/ Truthy(description) \/ default.t # "undefined" \/ hasExamples
        THEN <<indent \o "/**">>
             \o (IF Truthy(title) /\ title # description
                 THEN <<indent \o " * " \o title.v>> ELSE <<>>)
             \o descLines
             \o (IF default.t # "undefined"
                 THEN <<indent \o " * @default " \o JSONStringify(default)>> ELSE <<>>)
             \o (IF hasExamples
                 THEN <<indent \o " * @example " \o JSONStringify(examples.v[1])>>
                 ELSE <<>>)
             \o <<indent \o " */">>
        ELSE <<>>
  IN Join(lines, "\n")

\* /^[A-Za-z_$][A-Za-z0-9_$]*$/.test(key)
IsIdentifier(key) ==
  /\ Len(key) > 0
  /\ Ch(key, 1) \in Chars(Lower) \cup Chars(Upper) \cup {"_", "$"}
  /\ \A i \in 2..Len(key) :
       Ch(key, i) \in Chars(Lower) \cup Chars(Upper) \cup Chars(Digits) \cup {"_", "$"}

\* { ...schema, type }
WithType(schema, type) ==
  JObj([i \in 1..Len(schema.v) |->
          IF schema.v[i][1] = "type" THEN <<"type", type>> ELSE schema.v[i]])

\* the primitive names of the final switch
PrimitiveType(type) ==
  CASE IsStr(type, "string") -> "string"
    [] IsStr(type, "number") \/ IsStr(type, "integer") -> "number"
    [] IsStr(type, "boolean") -> "boolean"
    [] IsStr(type, "null") -> "null"
    [] IsStr(type, "array") -> "unknown[]"
    [] IsStr(type, "object") -> "Record<string, unknown>"
    [] OTHER -> "unknown"

\* the guard taken one level early
DepthGuardEarly(depth) == depth >= MAX_DEPTH

\* the guard taken two levels late
DepthGuardLate(depth) == depth > MAX_DEPTH + 2

\* if (depth > 20)
DepthGuard(depth) == depth > MAX_DEPTH

\* a node counts as a reference only when $ref is its one field
IsReferenceAlone(schema) == Truthy(Get(schema, "$ref")) /\ Len(schema.v) = 1

\* if (schema.$ref)
IsReference(schema) == Truthy(Get(schema, "$ref"))

\* the rule of the dispatch that takes a node without $ref
Dispatch(schema) ==
  LET type == Get(schema, "type")
  IN IF Truthy(Get(schema, "oneOf")) \/ Truthy(Get(schema, "anyOf")) THEN "union"
     ELSE IF Truthy(Get(schema, "allOf")) THEN "allOf"
     ELSE IF Truthy(Get(schema, "enum")) THEN "enum"
     ELSE IF Get(schema, "const").t # "undefined" THEN "const"
     ELSE IF type.t = "array" THEN "typeList"
     ELSE IF IsStr(type, "array") /\ Truthy(Get(schema, "items")) THEN "array"
     ELSE IF IsStr(type, "object") \/ Truthy(Get(schema, "properties")) THEN "object"
     ELSE "primitive"

\* anyOf taken before oneOf
UnionOptionsAnyOfFirst(schema) ==
  LET oneOf == Get(schema, "oneOf")
      anyOf == Get(schema, "anyOf")
  IN IF ~Nullish(anyOf) THEN anyOf.v
     ELSE IF ~Nullish(oneOf) THEN oneOf.v
     ELSE <<>>

\* schema.oneOf ?? schema.anyOf ?? []
UnionOptions(schema) ==
  LET oneOf == Get(schema, "oneOf")
      anyOf == Get(schema, "anyOf")
  IN IF ~Nullish(oneOf) THEN oneOf.v
     ELSE IF ~Nullish(anyOf) THEN anyOf.v
     ELSE <<>>

\* the marker on the required fields instead
OptionalMarkInverted(required, key) == IF key \in required THEN "?" ELSE ""

\* required.has(key) ? "" : "?"
OptionalMark(required, key) == IF key \in required THEN "" ELSE "?"

Ret(v, st) == [ex |-> FALSE, st |-> st, v |-> v]
Throw(st) == [ex |-> TRUE, st |-> st, v |-> ""]

RECURSIVE jsonTypeToTsType(_, _, _, _)
RECURSIVE MapTypes(_, _, _, _)
RECURSIVE renderObject(_, _, _, _)
RECURSIVE RenderFields(_, _, _, _, _, _)

\* options.map(option => jsonTypeToTsType(option, context, depth)), left to
\* right; the first exception ends the map.  The result is [ex, st, v].
MapTypes(options, context, depth, st) ==
  LET cons(v, r) == IF r.ex THEN Throw(r.st) ELSE Ret(<<v>> \o r.v, r.st)
      rest(h) ==
        IF h.ex THEN Throw(h.st)
        ELSE cons(h.v, MapTypes(Tail(options), context, depth, h.st))
  IN IF Len(options) = 0 THEN Ret(<<>>, st)
     ELSE rest(jsonTypeToTsType(Head(options), context, depth, st))

\* a tuple whose slots come out in the opposite order
CombinedTupleReversed(rule, types) ==
  IF types.ex THEN Throw(types.st)
  ELSE Ret(IF rule = "union" THEN wrapUnion(FilterBoolean(types.v))
           ELSE IF rule = "allOf"
           THEN (IF Len(types.v) > 0 THEN Join(types.v, " & ") ELSE "unknown")
           ELSE IF rule = "typeList" THEN wrapUnion(types.v)
           ELSE IF rule = "tuple"
           THEN "[" \o Join([i \in 1..Len(types.v) |-> types.v[Len(types.v) + 1 - i]],
                            ", ") \o "]"
           ELSE "(" \o types.v[1] \o ")[]",
           types.st)

\* what the synthesizer makes of the texts of the parts of a node
Combined(rule, types) ==
  IF types.ex THEN Throw(types.st)
  ELSE Ret(IF rule = "union" THEN wrapUnion(FilterBoolean(types.v))
           ELSE IF rule = "allOf"
           THEN (IF Len(types.v) > 0 THEN Join(types.v, " & ") ELSE "unknown")
           ELSE IF rule = "typeList" THEN wrapUnion(types.v)
           ELSE IF rule = "tuple" THEN "[" \o Join(types.v, ", ") \o "]"
           ELSE "(" \o types.v[1] \o ")[]",
           types.st)

\* schema.type.map(type => ({ ...schema, type }))
TypeMembers(schema, members) ==
  [i \in 1..Len(members) |-> WithType(schema, members[i])]

\* schema.enum.map(value => ...)
Literals(values) == [i \in 1..Len(values) |-> Literal(values[i])]

jsonTypeToTsType(schema, context, depth, st0) ==
  LET followed(target) ==
        IF target.ex THEN Throw(target.st)
        ELSE IF target.ok
        THEN jsonTypeToTsType(target.ctx.schema, target.ctx, depth + 1, target.st)
        ELSE Ret("unknown", target.st)
      items(it, st) ==
        IF it.t = "array"
        THEN Combined("tuple", MapTypes(it.v, context, depth + 1, st))
        ELSE Combined("array", MapTypes(<<it>>, context, depth + 1, st))
      synthesize(rule, st) ==
        IF schema.t = "null" \/ schema.t = "undefined" THEN Throw(st)
        ELSE IF IsReference(schema)
        THEN followed(resolveRef(Get(schema, "$ref").v, context, st))
        ELSE IF rule = "union"
        THEN Combined(rule, MapTypes(UnionOptions(schema), context, depth + 1, st))
        ELSE IF rule = "allOf"
        THEN Combined(rule, MapTypes(Get(schema, "allOf").v, context, depth + 1, st))
        ELSE IF rule = "enum"
        THEN Ret(wrapUnion(Literals(Get(schema, "enum").v)), st)
        ELSE IF rule = "const"
        THEN Ret(Literal(Get(schema, "const")), st)
        ELSE IF rule = "typeList"
        THEN Combined(rule, MapTypes(TypeMembers(schema, Get(schema, "type").v),
                                     context, depth + 1, st))
        ELSE IF rule = "array"
        THEN items(Get(schema, "items"), st)
        ELSE IF rule = "object"
        THEN renderObject(schema, context, depth + 1, st)
        ELSE Ret(PrimitiveType(Get(schema, "type")), st)
  IN IF DepthGuard(depth) THEN Ret("unknown", st0)
     ELSE synthesize(Dispatch(schema), [st0 EXCEPT !.maxd = Max(@, depth)])

\* /^[A-Za-z_$][A-Za-z0-9_$]*$/.test(key) ? key : `'${key}'`
SafeKey(key) == IF IsIdentifier(key) THEN key ELSE "'" \o key \o "'"

\* `${indent}${safeKey}${optional}: ${type};`
FieldLine(key, required, depth, type) ==
  Repeat("  ", depth) \o SafeKey(key) \o OptionalMark(required, key) \o ": "
  \o type \o ";"

\* if (doc) lines.push(doc)
DocLines(doc) == IF doc # "" THEN <<doc>> ELSE <<>>

\* the for loop of renderObject over Object.entries(props); v is the lines
RenderFields(entries, required, context, depth, lines, st) ==
  LET field(key, value, type) ==
        IF type.ex THEN Throw(type.st)
        ELSE RenderFields(Tail(entries), required, context, depth,
                          lines \o DocLines(generateJSDoc(value, depth))
                                \o <<FieldLine(key, required, depth, type.v)>>,
                          type.st)
      entry(e) == field(e[1], e[2], jsonTypeToTsType(e[2], context, depth + 1, st))
  IN IF Len(entries) = 0 THEN Ret(lines, st) ELSE entry(Head(entries))

\* new Set(schema.required ?? [])
RequiredSet(req) ==
  IF req.t = "array" THEN {req.v[i].v : i \in 1..Len(req.v)} ELSE {}

\* Object.entries(schema.properties ?? {})
PropertyEntries(properties) == IF properties.t = "object" THEN properties.v ELSE <<>>

\* an index signature that is typed "unknown" whatever the schema says
IndexSignatureUnknown(depth, additional) ==
  Repeat("  ", depth) \o "[key: string]: unknown;"

\* `${indent}[key: string]: ${additional};`
IndexSignature(depth, additional) ==
  Repeat("  ", depth) \o "[key: string]: " \o additional \o ";"

\* `${"  ".repeat(depth - 1)}}`
Closing(depth) == Repeat("  ", depth - 1) \o "}"

renderObject(schema, context, depth, st) ==
  LET withSchema(lines, additional) ==
        IF additional.ex THEN Throw(additional.st)
        ELSE Ret(Join(lines \o <<IndexSignature(depth, additional.v), Closing(depth)>>,
                      "\n"),
                 additional.st)
      close(ap, fields) ==
        IF fields.ex THEN Throw(fields.st)
        ELSE IF ap.t = "boolean" /\ ap.v
        THEN Ret(Join(fields.v \o <<IndexSignature(depth, "unknown"), Closing(depth)>>,
                      "\n"),
                 fields.st)
        ELSE IF ap.t \in {"object", "array", "null"}
        THEN withSchema(fields.v,
                        jsonTypeToTsType(ap, context, depth + 1, fields.st))
        ELSE Ret(Join(fields.v \o <<Closing(depth)>>, "\n"), fields.st)
  IN close(Get(schema, "additionalProperties"),
           RenderFields(PropertyEntries(Get(schema, "properties")),
                        RequiredSet(Get(schema, "required")),
                        context, depth, <<"{">>, st))

(***************************************************************************)
(* The schema repository the runs work on                                  *)
(***************************************************************************)
Ref(r) == JObj(<<<<"$ref", JStr(r)>>>>)
TypeOf(ty) == JObj(<<<<"type", JStr(ty)>>>>)
Const(s) == JObj(<<<<"const", JStr(s)>>>>)

HEALTH_SCHEMA == "source/behavior/entities/format/components/health.json"
COMMON_SCHEMA == "source/common.json"
X_SCHEMA == "source/behavior/x.json"
Y_SCHEMA == "source/behavior/y.json"
TREE_SCHEMA == "source/behavior/tree.json"
BAD_SCHEMA == "source/behavior/bad.json"

\* components.json: every property is one exported component
RootDoc ==
  JObj(<<
    <<"type", JStr("object")>>,
    <<"properties", JObj(<<
        <<"minecraft:health", Ref("./components/health.json")>>,
        <<"minecraft:pos", Ref("#/definitions/Pos")>>,
        <<"minecraft:alias", Ref("#/definitions/A")>>,
        <<"minecraft:loop", Ref("#/definitions/CycA")>>,
        <<"minecraft:base", Ref("../../../common.json#/definitions/Base")>>,
        <<"minecraft:base_again", Ref("./../../../common.json#/definitions/Base")>>,
        <<"minecraft:tag", JObj(<<<<"type", JStr("string")>>,
                                  <<"description", JStr("A tag.")>>>>)>>
      >>)>>,
    <<"definitions", JObj(<<
        <<"Pos", JObj(<<<<"type", JStr("array")>>,
                        <<"items", JArr(<<TypeOf("number"), TypeOf("number"),
                                          TypeOf("number")>>)>>>>)>>,
        <<"A", Ref("#/definitions/B")>>,
        <<"B", TypeOf("string")>>,
        <<"CycA", Ref("#/definitions/CycB")>>,
        <<"CycB", Ref("#/definitions/CycA")>>
      >>)>>
  >>)

HealthDoc ==
  JObj(<<
    <<"title", JStr("Health")>>,
    <<"type", JStr("object")>>,
    <<"properties", JObj(<<
        <<"value", Ref("#/definitions/Amount")>>,
        <<"max", TypeOf("integer")>>
      >>)>>,
    <<"required", JArr(<<JStr("value")>>)>>,
    <<"definitions", JObj(<<<<"Amount", TypeOf("integer")>>>>)>>
  >>)

CommonDoc ==
  JObj(<<
    <<"definitions", JObj(<<
        <<"Base", JObj(<<<<"type", JStr("object")>>,
                         <<"properties", JObj(<<<<"id", Ref("#/definitions/Id")>>>>)>>,
                         <<"required", JArr(<<JStr("id")>>)>>>>)>>,
        <<"Id", TypeOf("string")>>,
        <<"Alias", Ref("#/definitions/Id")>>
      >>)>>
  >>)

\* two documents that refer to each other, and one that refers to its own root
XDoc == Ref("y.json")
YDoc == Ref("x.json")
TreeDoc ==
  JObj(<<<<"type", JStr("object")>>,
         <<"properties", JObj(<<<<"child", Ref("#")>>>>)>>>>)

Paths == {ROOT_SCHEMA, HEALTH_SCHEMA, COMMON_SCHEMA, X_SCHEMA, Y_SCHEMA,
          TREE_SCHEMA, BAD_SCHEMA}

DocOf(p) ==
  CASE p = ROOT_SCHEMA -> RootDoc
    [] p = HEALTH_SCHEMA -> HealthDoc
    [] p = COMMON_SCHEMA -> CommonDoc
    [] p = X_SCHEMA -> XDoc
    [] p = Y_SCHEMA -> YDoc
    [] p = TREE_SCHEMA -> TreeDoc
    [] OTHER -> JNull

\* a repository in which the paths of `missing' do not exist and those of
\* `malformed' do not parse
Repository(missing, malformed) ==
  [p \in Paths \ missing |->
     [status |-> IF p \in malformed THEN "malformed" ELSE "ok", doc |-> DocOf(p)]]

(***************************************************************************)
(* Emitter                                                                 *)
(***************************************************************************)
REPO == "Blockception/Minecraft-bedrock-json-schemas"
REF == "2cc0b9b10b48bc7937cf86845c83504e40b9458f"

IsAlnum(c) == c \in Chars(Lower) \cup Chars(Upper) \cup Chars(Digits)

RECURSIVE Words(_, _, _)
\* value.split(/[^a-zA-Z0-9]+/).filter(Boolean)
Words(value, i, word) ==
  IF i > Len(value) THEN (IF word = "" THEN <<>> ELSE <<word>>)
  ELSE IF IsAlnum(Ch(value, i)) THEN Words(value, i + 1, word \o Ch(value, i))
  ELSE (IF word = "" THEN <<>> ELSE <<word>>) \o Words(value, i + 1, "")

ToUpperCase(c) ==
  LET i == IndexOf(Lower, c) IN IF i = 0 THEN c ELSE Ch(Upper, i)

toPascalCase(value) ==
  LET parts == Words(value, 1, "")
  IN Join([i \in 1..Len(parts) |-> ToUpperCase(Ch(parts[i], 1)) \o Slice(parts[i], 1)],
          "")

TypeName(component) == "EntityComponent" \o toPascalCase(component.name)

\* the documentation block above one type alias
AliasDoc(component) ==
  LET title == component.title
      description == component.description
      descLines == IF Truthy(description)
                   THEN LET ls == Split(description.v, "\n")
                        IN [i \in 1..Len(ls) |-> " * " \o ls[i]]
                   ELSE <<>>
  IN IF Truthy(title) \/ Truthy(description)
     THEN Join(<<"/**">>
               \o (IF Truthy(title) /\ title # description
                   THEN <<" * " \o title.v>> ELSE <<>>)
               \o descLines \o <<" */">>, "\n")
     ELSE ""

TypeAlias(component) ==
  LET doc == AliasDoc(component)
  IN (IF doc # "" THEN doc \o "\n" ELSE "")
     \o "export type " \o TypeName(component) \o " = " \o component.type \o ";\n"

\* the member without the mark that makes it optional
InterfaceMemberRequired(component) ==
  "  '" \o component.name \o "': " \o TypeName(component) \o ";"

InterfaceMember(component) ==
  "  '" \o component.name \o "'?: " \o TypeName(component) \o ";"

generateTypeScript(comps) ==
  LET banner == Join(<<"/*",
                       " * AUTO-GENERATED FILE",
                       " * Source repo: " \o REPO,
                       " * Source ref: " \o REF,
                       " * Script: pokemon-behaviors/types/scripts/generateComponents.ts",
                       " *",
                       " * Do not edit this file directly. Run npm run generate:types instead.",
                       " * Source file: " \o ROOT_SCHEMA,
                       " * Origin: https://raw.githubusercontent.com/" \o REPO \o "/"
                          \o REF \o "/" \o ROOT_SCHEMA,
                       " */">>, "\n")
      typeAliases == Join([i \in 1..Len(comps) |-> TypeAlias(comps[i])], "\n")
      interfaceDoc == Join(<<"/**",
                             " * All known Minecraft entity components with strong TypeScript types.",
                             " */">>, "\n")
      interfaceBody == interfaceDoc \o "\nexport interface EntityComponents {\n"
                       \o Join([i \in 1..Len(comps) |-> InterfaceMember(comps[i])], "\n")
                       \o "\n}\n\nexport default EntityComponents;\n"
  IN banner \o "\n\n" \o typeAliases \o "\n" \o interfaceBody

(***************************************************************************)
(* extractComponents                                                       *)
(***************************************************************************)
\* a ?? b
Coalesce(a, b) == IF Nullish(a) THEN b ELSE a

\* the ComponentDefinition pushed to results
Component(name, schema, resolvedSchema, type) ==
  [name |-> name,
   type |-> type,
   description |-> Coalesce(Get(resolvedSchema, "description"),
                            Get(schema, "description")),
   title |-> Coalesce(Get(resolvedSchema, "title"), Get(schema, "title"))]

\* the loop body with a failed load caught and turned into "unknown"
ComponentOfCatching(name, schema, context, st) ==
  LET unknown(s) == Ret(Component(name, schema, schema, "unknown"), s)
      typed(resolved, typeString) ==
        IF typeString.ex THEN unknown(typeString.st)
        ELSE Ret(Component(name, schema, resolved.ctx.schema, typeString.v),
                 typeString.st)
      from(resolved) ==
        IF resolved.ex THEN unknown(resolved.st)
        ELSE typed(resolved, jsonTypeToTsType(resolved.ctx.schema, resolved.ctx, 0,
                                              resolved.st))
  IN from(ResolveTopLevel(schema, context, st))

\* the body of the for loop: one property of the root becomes one component
ComponentOf(name, schema, context, st) ==
  LET typed(resolved, typeString) ==
        IF typeString.ex THEN Throw(typeString.st)
        ELSE Ret(Component(name, schema, resolved.ctx.schema, typeString.v),
                 typeString.st)
      from(resolved) ==
        IF resolved.ex THEN Throw(resolved.st)
        ELSE typed(resolved, jsonTypeToTsType(resolved.ctx.schema, resolved.ctx, 0,
                                              resolved.st))
  IN from(ResolveTopLevel(schema, context, st))

\* Object.entries(context.schema.properties ?? {})
RootEntries(schema) ==
  LET properties == Get(schema, "properties")
  IN IF properties.t = "object" THEN properties.v ELSE <<>>

RECURSIVE ExtractFrom(_, _, _, _)
\* the for loop of extractComponents from the given entries on; the first
\* exception ends it
ExtractFrom(entries, context, results, st) ==
  LET pushed(component) ==
        IF component.ex THEN Throw(component.st)
        ELSE ExtractFrom(Tail(entries), context, Append(results, component.v),
                         component.st)
      entry(e) == pushed(ComponentOf(e[1], e[2], context, st))
  IN IF Len(entries) = 0 THEN Ret(results, st) ELSE entry(Head(entries))

extractComponents(context, st) ==
  ExtractFrom(RootEntries(context.schema), context, <<>>, st)

(***************************************************************************)
(* main: one compiler run                                                  *)
(***************************************************************************)
NoCall == [fn |-> "main"]
NoRet == [ex |-> FALSE]

\* the documents of the repository a run may find missing or malformed
Fragile == {ROOT_SCHEMA, HEALTH_SCHEMA, COMMON_SCHEMA}

Init ==
  /\ \E missing \in SUBSET Fragile, malformed \in SUBSET Fragile :
       files = Repository(missing, malformed \cup {BAD_SCHEMA})
  /\ schemaCache = <<>>
  /\ reads = <<>>
  /\ pc = "main"
  /\ components = <<>>
  /\ idx = 0
  /\ output = NoOutput
  /\ call = NoCall
  /\ ret = NoRet

\* await ensureRepoReady(): the repository is in place
EnsureRepoReady ==
  /\ pc = "main"
  /\ pc' = "load"
  /\ UNCHANGED <<files, schemaCache, reads, components, idx, output, call, ret>>

\* await ensureRepoReady() rejects: the archive could not be fetched
EnsureRepoFails ==
  /\ pc = "main"
  /\ pc' = "failed"
  /\ ret' = [ex |-> TRUE]
  /\ UNCHANGED <<files, schemaCache, reads, components, idx, output, call>>

\* const rootContext = loadSchemaContext(ROOT_SCHEMA)
LoadRoot ==
  /\ pc = "load"
  /\ \E r \in {loadSchemaContext(ROOT_SCHEMA, Store(schemaCache, reads))} :
        /\ schemaCache' = r.st.cache
        /\ reads' = r.st.reads
        /\ pc' = IF r.ex THEN "failed" ELSE "extract"
        /\ ret' = [ex |-> r.ex]
  /\ UNCHANGED <<files, components, idx, output, call>>

\* one iteration of the loop of extractComponents
ExtractStep ==
  /\ pc = "extract"
  /\ idx < Len(RootEntries(schemaCache[ROOT_SCHEMA]))
  /\ \E context \in {[schema |-> schemaCache[ROOT_SCHEMA], path |-> ROOT_SCHEMA]},
        entry \in {RootEntries(schemaCache[ROOT_SCHEMA])[idx + 1]} :
      \E r \in {ComponentOf(entry[1], entry[2], context, Store(schemaCache, reads))} :
        /\ schemaCache' = r.st.cache
        /\ reads' = r.st.reads
        /\ ret' = [ex |-> r.ex]
        /\ IF r.ex
           THEN /\ pc' = "failed"
                /\ UNCHANGED <<components, idx>>
           ELSE /\ pc' = "extract"
                /\ components' = Append(components, r.v)
                /\ idx' = idx + 1
  /\ UNCHANGED <<files, output, call>>

\* generateTypeScript, prettier.format (layout only) and fs.writeFile
WriteOutput ==
  /\ pc = "extract"
  /\ idx = Len(RootEntries(schemaCache[ROOT_SCHEMA]))
  /\ output' = JStr(generateTypeScript(components))
  /\ pc' = "done"
  /\ UNCHANGED <<files, schemaCache, reads, components, idx, call, ret>>

Next == EnsureRepoReady \/ EnsureRepoFails \/ LoadRoot \/ ExtractStep \/ WriteOutput

Spec == Init /\ [][Next]_vars

(***************************************************************************)
(* Pokemon behaviors (behaviors/generate.ts)                               *)
(***************************************************************************)
\* name.toLowerCase()
ToLowerCase(name) ==
  LET lower(c) == IF IndexOf(Upper, c) = 0 THEN c ELSE Ch(Lower, IndexOf(Upper, c))
  IN Join([i \in 1..Len(name) |-> lower(Ch(name, i))], "")

\* the registrations of custom Pokemon, in the order they are written: the
\* source leaves the record to be filled in, a call is examined with each
\* choice of registrations
CUSTOM_POKEMON == call.custom

\* the factory registered under a key, called: the output of the custom file
Factory(key) == [source |-> "custom", typeId |-> "pokemon:" \o key]

\* an excerpt of the movement data, one entry of each kind of locomotion and
\* two of the first
POKEMON_MOVEMENT ==
  <<<<"arcanine", [locomotion |-> "terrestrial", walkSpeed |-> "0.4"]>>,
    <<"ditto", [locomotion |-> "terrestrial", walkSpeed |-> "0.2"]>>,
    <<"pidgeot", [locomotion |-> "volant", flySpeed |-> "1.2", walkSpeed |-> "0.25"]>>,
    <<"magikarp", [locomotion |-> "aquatic", swimSpeed |-> "0.1"]>>,
    <<"psyduck", [locomotion |-> "semiaquatic", walkSpeed |-> "0.2",
                  swimSpeed |-> "0.2"]>>,
    <<"gastly", [locomotion |-> "levitating", floatSpeed |-> "0.5"]>>>>

\* the rideable data of the Pokemon of the excerpt
RIDEABLE_POKEMON ==
  <<<<"arcanine", [rideType |-> "land"]>>, <<"pidgeot", [rideType |-> "air"]>>>>

\* the keys of a record, in order
KeysOf(record) == [i \in 1..Len(record) |-> record[i][1]]

\* record[key], undefined when there is no such key
Lookup(record, key) ==
  IF \E i \in 1..Len(record) : record[i][1] = key
  THEN record[CHOOSE i \in 1..Len(record) : record[i][1] = key][2]
  ELSE Undefined

\* key in record: own keys and the names inherited from Object.prototype
KeyIn(key, keys) ==
  (\E i \in 1..Len(keys) : keys[i] = key) \/ key \in ObjectPrototypeKeys

\* CUSTOM_POKEMON[key](): the registered factory, or the inherited function
CallCustom(key) ==
  IF \E i \in 1..Len(CUSTOM_POKEMON) : CUSTOM_POKEMON[i] = key
  THEN Factory(key)
  ELSE [source |-> "inherited", typeId |-> ""]

\* new <Template>({ typeId, primaryType, secondaryType, ..., rideable }).build()
generateFromMovementData(name, data, types) ==
  LET rideable == Lookup(RIDEABLE_POKEMON, name)
      base == [source |-> "template", typeId |-> "pokemon:" \o name,
               primaryType |-> types.primary, secondaryType |-> types.secondary,
               rideable |-> rideable]
  IN CASE data.locomotion = "terrestrial" ->
            [template |-> "WalkingPokemon", walkSpeed |-> data.walkSpeed] @@ base
       [] data.locomotion = "aquatic" ->
            [template |-> "SwimmingPokemon", swimSpeed |-> data.swimSpeed,
             walkSpeed |-> "0", avoidsLand |-> TRUE] @@ base
       [] data.locomotion = "semiaquatic" ->
            [template |-> "SwimmingPokemon", swimSpeed |-> data.swimSpeed,
             walkSpeed |-> data.walkSpeed, avoidsLand |-> FALSE] @@ base
       [] data.locomotion = "volant" ->
            [template |-> "FlyingPokemon", flySpeed |-> data.flySpeed,
             walkSpeed |-> data.walkSpeed] @@ base
       [] OTHER ->
            [template |-> "LevitatingPokemon", floatSpeed |-> data.floatSpeed] @@ base

\* the generator asked before the custom registrations
generateBehaviorMovementFirst(name, types) ==
  LET lowerName == ToLowerCase(name)
      movementData == Lookup(POKEMON_MOVEMENT, lowerName)
  IN IF movementData # Undefined
     THEN generateFromMovementData(lowerName, movementData, types)
     ELSE IF KeyIn(lowerName, CUSTOM_POKEMON) THEN CallCustom(lowerName)
     ELSE Undefined

generateBehavior(name, types) ==
  LET lowerName == ToLowerCase(name)
      movementData == Lookup(POKEMON_MOVEMENT, lowerName)
  IN IF KeyIn(lowerName, CUSTOM_POKEMON) THEN CallCustom(lowerName)
     ELSE IF movementData = Undefined THEN Undefined
     ELSE generateFromMovementData(lowerName, movementData, types)

\* behaviors.set(name, value): a new key goes to the end, a known key keeps
\* its place and takes the new value
MapSet(map, key, value) ==
  IF \E i \in 1..Len(map) : map[i][1] = key
  THEN [i \in 1..Len(map) |-> IF map[i][1] = key THEN <<key, value>> ELSE map[i]]
  ELSE Append(map, <<key, value>>)

RECURSIVE FromMovement(_, _, _)
\* the first loop of generateAllBehaviors
FromMovement(entries, typeMap, behaviors) ==
  IF Len(entries) = 0 THEN behaviors
  ELSE LET name == Head(entries)[1]
           data == Head(entries)[2]
           types == Lookup(typeMap, name)
       IN FromMovement(Tail(entries), typeMap,
                       IF KeyIn(name, CUSTOM_POKEMON) THEN behaviors
                       ELSE IF types = Undefined THEN behaviors
                       ELSE MapSet(behaviors, name,
                                   generateFromMovementData(name, data, types)))

RECURSIVE FromCustom(_, _)
\* the second loop of generateAllBehaviors
FromCustom(keys, behaviors) ==
  IF Len(keys) = 0 THEN behaviors
  ELSE FromCustom(Tail(keys), MapSet(behaviors, Head(keys), Factory(Head(keys))))

generateAllBehaviors(typeMap) ==
  FromCustom(CUSTOM_POKEMON, FromMovement(POKEMON_MOVEMENT, typeMap, <<>>))

(***************************************************************************)
(* Single calls: one function applied to one input                         *)
(***************************************************************************)
\* an entry that is there or not
Opt(present, key, value) == IF present THEN <<<<key, value>>>> ELSE <<>>

OneOfBranches == JArr(<<Const("a"), Const("b")>>)
AnyOfBranches == JArr(<<TypeOf("number")>>)
AllOfBranches == JArr(<<TypeOf("string"), TypeOf("boolean")>>)
EnumValues == JArr(<<JStr("x"), JNum(1)>>)
TypeList == JArr(<<JStr("string"), JStr("null")>>)
TupleItems == JArr(<<TypeOf("number"), TypeOf("string")>>)
SomeProperties == JObj(<<<<"hp", TypeOf("integer")>>>>)

TypeChoices == {"none", "list", "string", "array", "object"}
ItemsChoices == {"none", "single", "tuple"}

\* a node without $ref that sets any of the fields the dispatch looks at
DispatchNode(oneOf, anyOf, allOf, enum, const, type, items, properties) ==
  JObj(Opt(type # "none", "type", IF type = "list" THEN TypeList ELSE JStr(type))
       \o Opt(properties, "properties", SomeProperties)
       \o Opt(items # "none", "items",
              IF items = "tuple" THEN TupleItems ELSE TypeOf("boolean"))
       \o Opt(const, "const", JStr("c"))
       \o Opt(enum, "enum", EnumValues)
       \o Opt(allOf, "allOf", AllOfBranches)
       \o Opt(anyOf, "anyOf", AnyOfBranches)
       \o Opt(oneOf, "oneOf", OneOfBranches))

\* the branches a union is drawn from: equal texts from equal and from
\* different shapes, a branch that is a union itself, a record, a reference
BranchPool ==
  <<Const("a"), Const("b"), JObj(<<<<"enum", JArr(<<JStr("a")>>)>>>>),
    JObj(<<<<"enum", JArr(<<JStr("a"), JStr("b")>>)>>>>), TypeOf("string"),
    SomeProperties, Ref("#/definitions/Missing")>>

UnionNode(key, picks) ==
  JObj(<<<<key, JArr([i \in 1..Len(picks) |-> BranchPool[picks[i]]])>>>>)

RefStrings ==
  {"#", "#/definitions/Pos", "#/definitions/A", "#/definitions/B",
   "#/definitions/CycA", "#/definitions/Missing", "#/definitions/Base",
   "#/definitions/Alias", "#/properties/value", "./components/health.json",
   "../../../common.json#/definitions/Base", "../common.json#/definitions/Alias",
   "../../../common.json#/definitions/Nope",
   "y.json", "x.json", "tree.json", "bad.json", "nope.json"}

ExtraChoices == {"none", "type", "properties", "oneOf", "enum", "const", "required", "all"}

\* a node with $ref and further fields beside it
RefNode(ref, extra) ==
  JObj(Opt(extra \in {"type", "all"}, "type", JStr("string"))
       \o Opt(extra \in {"properties", "all"}, "properties", SomeProperties)
       \o Opt(extra \in {"required", "all"}, "required", JArr(<<JStr("hp")>>))
       \o <<<<"$ref", JStr(ref)>>>>
       \o Opt(extra \in {"const", "all"}, "const", JStr("c"))
       \o Opt(extra \in {"enum", "all"}, "enum", EnumValues)
       \o Opt(extra \in {"oneOf", "all"}, "oneOf", OneOfBranches))

\* the schemas the items of an array are drawn from: primitives, a union, a
\* tuple, a sequence, a record, a reference that resolves and one that does not
ItemPool ==
  <<TypeOf("number"), TypeOf("string"), JObj(<<<<"oneOf", OneOfBranches>>>>),
    JObj(<<<<"type", JStr("array")>>, <<"items", TupleItems>>>>),
    JObj(<<<<"type", JStr("array")>>, <<"items", TypeOf("string")>>>>),
    JObj(<<<<"properties", SomeProperties>>>>), Ref("#/definitions/Pos"),
    Ref("#/definitions/Missing")>>

\* { type: "array", items }
ArrayNode(items) == JObj(<<<<"type", JStr("array")>>, <<"items", items>>>>)

\* the values the documentation fields of a property take
TitleChoices == {"none", "", "Name", "Shown name."}
DescriptionChoices == {"none", "", "Shown name.", "Shown name.\nMay be empty."}
DefaultChoices == {"none", "null", "false", "zero", "text"}
ExampleChoices == 0..MaxExamples \cup {-1}

\* a string property that carries the chosen documentation fields
DocumentedNode(title, description, default, examples) ==
  JObj(<<<<"type", JStr("string")>>>>
       \o Opt(title # "none", "title", JStr(title))
       \o Opt(description # "none", "description", JStr(description))
       \o Opt(default # "none", "default",
              CASE default = "null" -> JNull
                [] default = "false" -> JBool(FALSE)
                [] default = "zero" -> JNum(0)
                [] OTHER -> JStr("x"))
       \o Opt(examples >= 0, "examples",
              JArr([i \in 1..examples |-> JStr("e" \o ToString(i))])))

KeyPool == <<"hp", "name", "minecraft:id", "gone">>
RequiredPool == {"hp", "name", "gone", "ghost"}
AdditionalChoices == {"none", "true", "false", "schema", "record", "ref"}

\* the values of additionalProperties
AdditionalValue(additional) ==
  CASE additional = "true" -> JBool(TRUE)
    [] additional = "false" -> JBool(FALSE)
    [] additional = "record" ->
         JObj(<<<<"type", JStr("object")>>,
                <<"properties", JObj(<<<<"x", TypeOf("number")>>>>)>>,
                <<"additionalProperties", JBool(TRUE)>>>>)
    [] additional = "ref" -> Ref("#/definitions/Pos")
    [] OTHER -> TypeOf("number")

PropertyValue(key) ==
  CASE key = "hp" -> TypeOf("integer")
    [] key = "name" -> JObj(<<<<"type", JStr("string")>>,
                              <<"description", JStr("Shown name.\nMay be empty.")>>>>)
    [] key = "minecraft:id" -> JObj(<<<<"type", JStr("object")>>,
                                      <<"properties", JObj(<<<<"x", TypeOf("number")>>>>)>>,
                                      <<"required", JArr(<<JStr("x")>>)>>>>)
    [] key = "gone" -> Ref("#/definitions/Missing")
    [] OTHER -> Ref("#/definitions/Pos")

\* the references that turn the root of a document into a further context
ContextRefs ==
  {"#", "#/definitions/A", "#/definitions/Base", "./components/health.json",
   "../../../common.json#/definitions/Base", "y.json"}

RECURSIVE SeqOfSet(_)
SeqOfSet(S) ==
  IF S = {} THEN <<>>
  ELSE LET x == CHOOSE y \in S : TRUE IN <<x>> \o SeqOfSet(S \ {x})

\* an object schema with the given keys, in the given order
ObjectNode(keys, required, additional) ==
  JObj(<<<<"type", JStr("object")>>,
         <<"properties", JObj([i \in 1..Len(keys) |->
                                 <<KeyPool[keys[i]], PropertyValue(KeyPool[keys[i]])>>])>>>>
       \o Opt(required # {}, "required",
              JArr([i \in 1..Cardinality(required) |-> JStr(SeqOfSet(required)[i])]))
       \o Opt(additional # "none", "additionalProperties",
              AdditionalValue(additional)))

Injective(f) == \A i, j \in DOMAIN f : f[i] = f[j] => i = j

\* a document whose keys need the escapes of a pointer, with values of every
\* kind below them
PointerDoc ==
  JObj(<<
    <<"definitions", JObj(<<
        <<"A", TypeOf("string")>>,
        <<"a/b", Const("solidus inside")>>,
        <<"m~n", Const("tilde inside")>>,
        <<"minecraft:id", Const("colon inside")>>,
        <<"~1", Const("tilde one")>>,
        <<"/", Const("solidus")>>,
        <<"~", Const("tilde")>>,
        <<":", Const("colon")>>,
        <<"~/", Const("tilde solidus")>>,
        <<"/~", Const("solidus tilde")>>,
        <<"~:", Const("tilde colon")>>,
        <<"%3a", Const("lower case")>>,
        <<"list", JArr(<<TypeOf("number"), TypeOf("boolean")>>)>>,
        <<"none", JNull>>,
        <<"text", JStr("abc")>>,
        <<"zero", JNum(0)>>,
        <<"flag", JBool(FALSE)>>
      >>)>>
  >>)

PointerRoots == {PointerDoc, JArr(<<TypeOf("number")>>), JStr("abc"), JNull}

\* the segments below `definitions' a pointer is made of
Segments ==
  {"A", "a~1b", "m~0n", "minecraft%3Aid", "~01", "~1", "~0", "%3A", "~0~1", "~1~0",
   "~0%3A", "%3a", "~", "a/b", "Missing", "", "list", "none", "text", "zero", "flag",
   "constructor", "toString"}

SubSegments == {"", "/0", "/1/type", "/2", "/length", "/type", "/const", "/x", "/toString"}

Pointers ==
  {"#", "", "#definitions", "/definitions/A", "definitions/A", "#/", "#/definitions",
   "#/0", "#/0/type", "#/length", "#/toString"}
  \cup {"#/definitions/" \o seg \o sub : seg \in Segments, sub \in SubSegments}

\* the root document with the given properties, in the given order
RootWith(entries) ==
  JObj(<<<<"type", JStr("object")>>,
         <<"properties", JObj(entries)>>,
         <<"definitions", Get(RootDoc, "definitions")>>>>)

\* the properties a root document is made of: those of components.json, two
\* keys that make the same type name, a key that is an identifier, a node
\* whose type is a list
PropertyPool ==
  RootEntries(RootDoc)
  \o <<<<"minecraft:is_baby", JObj(<<<<"type", JStr("boolean")>>,
                                     <<"title", JStr("Is Baby")>>,
                                     <<"description", JStr("Line one.\nLine two.")>>>>)>>,
       <<"minecraft:is.baby", JObj(<<<<"type", JStr("object")>>,
                                     <<"properties",
                                       JObj(<<<<"minecraft:age", TypeOf("integer")>>>>)>>>>)>>,
       <<"tag", JObj(<<<<"enum", JArr(<<JStr("a"), JStr("b")>>)>>>>)>>,
       <<"minecraft:nick", JObj(<<<<"type", TypeList>>>>)>>>>

PrefixStyles == {"plain", "dot", "detour", "slashes"}
TargetFiles == {COMMON_SCHEMA, HEALTH_SCHEMA, BAD_SCHEMA}
Fragments == {"", "#", "#Base", "#/definitions/Base", "#/definitions/Amount"}

\* a relative path that leads from the directory of document `from' to the
\* file `to': up to the top of the repository, then down, in one of the styles
RelativeRef(from, to, style) ==
  LET ups == Repeat("../", Len(Split(from, "/")) - 1)
  IN CASE style = "plain" -> ups \o to
       [] style = "dot" -> "./" \o ups \o to
       [] style = "detour" -> ups \o "source/behavior/../../" \o to
       [] OTHER -> ups \o "./" \o ReplaceAll(to, "/", "//")

DepthArgs == {0, MAX_DEPTH} \cup (MAX_DEPTH + 1)..MaxCallDepth

\* the keys custom Pokemon are registered under: one that has movement data
\* and is rideable, one that has movement data, one that has neither
CustomKeys == <<"arcanine", "ditto", "rayquaza">>

\* the names generateBehavior is asked for
AskedNames ==
  {"ditto", "Ditto", "ARCANINE", "arcanine", "rayquaza", "Rayquaza", "gastly",
   "Magikarp", "pidgeot", "psyduck", "missingno", "constructor"}

\* the type information of a Pokemon
TypeInfo(name) ==
  CASE name = "arcanine" -> [primary |-> "fire", secondary |-> Undefined]
    [] name = "pidgeot" -> [primary |-> "normal", secondary |-> JStr("flying")]
    [] name = "gastly" -> [primary |-> "ghost", secondary |-> JStr("poison")]
    [] name \in {"magikarp", "psyduck"} -> [primary |-> "water", secondary |-> Undefined]
    [] name = "rayquaza" -> [primary |-> "dragon", secondary |-> JStr("flying")]
    [] OTHER -> [primary |-> "normal", secondary |-> Undefined]

\* the elements of a sequence that are in a set, in the order of the sequence
Chosen(all, S) == SelectSeq(all, LAMBDA x : x \in S)

\* a type map that has an entry for the names of S
TypeMapOf(S) ==
  LET names == Chosen(KeysOf(POKEMON_MOVEMENT) \o <<"rayquaza">>, S)
  IN [i \in 1..Len(names) |-> <<names[i], TypeInfo(names[i])>>]

\* the documents of the repository that load
Loadable == Paths \ {BAD_SCHEMA}

InitCall ==
  /\ files = Repository({}, {BAD_SCHEMA})
  /\ pc = "call"
  /\ components = <<>>
  /\ idx = 0
  /\ output = NoOutput
  /\ ret = NoRet
  /\ \/ \E oneOf, anyOf, allOf, enum, const, properties \in BOOLEAN,
          type \in TypeChoices, items \in ItemsChoices, depth \in DepthArgs :
          /\ call = [fn |-> "jsonTypeToTsType", family |-> "dispatch",
                     schema |-> DispatchNode(oneOf, anyOf, allOf, enum, const,
                                             type, items, properties),
                     context |-> [schema |-> RootDoc, path |-> ROOT_SCHEMA],
                     depth |-> depth]
          /\ schemaCache = CachePut(<<>>, ROOT_SCHEMA, RootDoc)
          /\ reads = <<ROOT_SCHEMA>>
     \/ \E key \in {"oneOf", "anyOf"}, n \in 0..MaxBranches :
          \E picks \in [1..n -> 1..Len(BranchPool)] :
            /\ call = [fn |-> "jsonTypeToTsType", family |-> "union",
                       schema |-> UnionNode(key, picks),
                       context |-> [schema |-> RootDoc, path |-> ROOT_SCHEMA],
                       depth |-> 0]
            /\ schemaCache = CachePut(<<>>, ROOT_SCHEMA, RootDoc)
            /\ reads = <<ROOT_SCHEMA>>
     \/ \E n \in 0..MaxBranches :
          \E picks \in [1..n -> 1..Len(BranchPool)] :
            /\ call = [fn |-> "jsonTypeToTsType", family |-> "allOf",
                       schema |-> UnionNode("allOf", picks),
                       context |-> [schema |-> RootDoc, path |-> ROOT_SCHEMA],
                       depth |-> 0]
            /\ schemaCache = CachePut(<<>>, ROOT_SCHEMA, RootDoc)
            /\ reads = <<ROOT_SCHEMA>>
     \/ \E ref \in RefStrings, extra \in ExtraChoices, depth \in DepthArgs,
          p \in Loadable, r0 \in ContextRefs :
          \E d \in {resolveRef(r0, [schema |-> DocOf(p), path |-> p],
                                Store(CachePut(<<>>, p, DocOf(p)), <<p>>))} :
             /\ ~d.ex
             /\ d.ok
             /\ schemaCache = d.st.cache
             /\ reads = d.st.reads
             /\ call = [fn |-> "jsonTypeToTsType", family |-> "ref",
                        schema |-> RefNode(ref, extra), context |-> d.ctx,
                        depth |-> depth]
     \/ \E ref \in RefStrings, p \in Loadable :
          /\ call = [fn |-> "component", family |-> "ref",
                     schema |-> Ref(ref),
                     context |-> [schema |-> DocOf(p), path |-> p],
                     depth |-> 0]
          /\ schemaCache = CachePut(<<>>, p, DocOf(p))
          /\ reads = <<p>>
     \/ \E p1 \in Loadable, p2 \in Loadable, s1 \in PrefixStyles, s2 \in PrefixStyles,
          to \in TargetFiles, fragment \in Fragments :
          /\ call = [fn |-> "resolveRef", family |-> "pair",
                     first |-> [ref |-> RelativeRef(p1, to, s1) \o fragment,
                                context |-> [schema |-> DocOf(p1), path |-> p1]],
                     second |-> [ref |-> RelativeRef(p2, to, s2) \o fragment,
                                 context |-> [schema |-> DocOf(p2), path |-> p2]],
                     to |-> to, fragment |-> fragment]
          /\ \E st \in {loadSchemaContext(p2,
                           loadSchemaContext(p1, Store(<<>>, <<>>)).st).st} :
               schemaCache = st.cache /\ reads = st.reads
     \/ \E n \in 0..MaxComponents :
          \E picks \in [1..n -> 1..Len(PropertyPool)] :
            /\ Injective(picks)
            /\ call = [fn |-> "compile", family |-> "compile",
                       context |-> [schema |-> RootWith([i \in 1..n |->
                                                          PropertyPool[picks[i]]]),
                                    path |-> ROOT_SCHEMA]]
            /\ schemaCache = CachePut(<<>>, ROOT_SCHEMA, call.context.schema)
            /\ reads = <<ROOT_SCHEMA>>
     \/ \E ref \in RefStrings, p \in Loadable :
          /\ call = [fn |-> "resolveSchema", family |-> "resolve",
                     schema |-> Ref(ref),
                     context |-> [schema |-> DocOf(p), path |-> p]]
          /\ schemaCache = CachePut(<<>>, p, DocOf(p))
          /\ reads = <<p>>
     \/ \E n \in 0..MaxItems, single \in BOOLEAN, depth \in {0, MAX_DEPTH} :
          \E picks \in [1..n -> 1..Len(ItemPool)] :
            /\ single => n = 1
            /\ call = [fn |-> "jsonTypeToTsType", family |-> "items",
                       schema |-> ArrayNode(IF single THEN ItemPool[picks[1]]
                                            ELSE JArr([i \in 1..n |-> ItemPool[picks[i]]])),
                       context |-> [schema |-> RootDoc, path |-> ROOT_SCHEMA],
                       depth |-> depth]
            /\ schemaCache = CachePut(<<>>, ROOT_SCHEMA, RootDoc)
            /\ reads = <<ROOT_SCHEMA>>
     \/ \E title \in TitleChoices, description \in DescriptionChoices,
          default \in DefaultChoices, examples \in ExampleChoices, depth \in {1, 2} :
          /\ call = [fn |-> "renderObject", family |-> "doc",
                     schema |-> JObj(<<<<"type", JStr("object")>>,
                                       <<"properties",
                                         JObj(<<<<"field",
                                                  DocumentedNode(title, description,
                                                                 default, examples)>>>>)>>>>),
                     context |-> [schema |-> RootDoc, path |-> ROOT_SCHEMA],
                     depth |-> depth]
          /\ schemaCache = CachePut(<<>>, ROOT_SCHEMA, RootDoc)
          /\ reads = <<ROOT_SCHEMA>>
     \/ \E registered \in SUBSET {CustomKeys[i] : i \in 1..Len(CustomKeys)},
          name \in AskedNames :
          /\ call = [fn |-> "generateBehavior", family |-> "behavior",
                     custom |-> Chosen(CustomKeys, registered),
                     name |-> name, types |-> TypeInfo(ToLowerCase(name))]
          /\ schemaCache = <<>>
          /\ reads = <<>>
     \/ \E registered \in SUBSET {CustomKeys[i] : i \in 1..Len(CustomKeys)},
          typed \in SUBSET ({POKEMON_MOVEMENT[i][1] : i \in 1..Len(POKEMON_MOVEMENT)}
                            \cup {"rayquaza"}) :
          /\ call = [fn |-> "generateAllBehaviors", family |-> "behaviors",
                     custom |-> Chosen(CustomKeys, registered),
                     typeMap |-> TypeMapOf(typed)]
          /\ schemaCache = <<>>
          /\ reads = <<>>
     \/ \E root \in PointerRoots, pointer \in Pointers :
          /\ call = [fn |-> "getByPointer", family |-> "pointer",
                     schema |-> root, pointer |-> pointer]
          /\ schemaCache = <<>>
          /\ reads = <<>>
     \/ \E n \in 0..MaxProps, required \in SUBSET RequiredPool,
          additional \in AdditionalChoices, depth \in {1, 2} :
          \E keys \in [1..n -> 1..Len(KeyPool)] :
            /\ Injective(keys)
            /\ call = [fn |-> "renderObject", family |-> "object",
                       schema |-> ObjectNode(keys, required, additional),
                       context |-> [schema |-> RootDoc, path |-> ROOT_SCHEMA],
                       depth |-> depth]
            /\ schemaCache = CachePut(<<>>, ROOT_SCHEMA, RootDoc)
            /\ reads = <<ROOT_SCHEMA>>

\* what a call leaves behind: its value, and the history of the call
Returned(r) == [ex |-> r.ex, v |-> r.v, maxd |-> r.st.maxd, log |-> r.st.log]

CallJsonTypeToTsType ==
  /\ pc = "call"
  /\ call.fn = "jsonTypeToTsType"
  /\ \E r \in {jsonTypeToTsType(call.schema, call.context, call.depth,
                                Store(schemaCache, reads))} :
        /\ ret' = Returned(r)
        /\ schemaCache' = r.st.cache
        /\ reads' = r.st.reads
        /\ pc' = IF r.ex THEN "threw" ELSE "returned"
  /\ UNCHANGED <<files, components, idx, output, call>>

CallRenderObject ==
  /\ pc = "call"
  /\ call.fn = "renderObject"
  /\ \E r \in {renderObject(call.schema, call.context, call.depth,
                            Store(schemaCache, reads))} :
        /\ ret' = Returned(r)
        /\ schemaCache' = r.st.cache
        /\ reads' = r.st.reads
        /\ pc' = IF r.ex THEN "threw" ELSE "returned"
  /\ UNCHANGED <<files, components, idx, output, call>>

\* resolveSchema followed by jsonTypeToTsType, as extractComponents does
CallComponent ==
  /\ pc = "call"
  /\ call.fn = "component"
  /\ \E r \in {ComponentOf("component", call.schema, call.context,
                           Store(schemaCache, reads))} :
        /\ ret' = [Returned(r) EXCEPT !.v = IF r.ex THEN "" ELSE r.v.type]
        /\ schemaCache' = r.st.cache
        /\ reads' = r.st.reads
        /\ pc' = IF r.ex THEN "threw" ELSE "returned"
  /\ UNCHANGED <<files, components, idx, output, call>>

\* extractComponents followed by generateTypeScript, as main does
CallCompile ==
  /\ pc = "call"
  /\ call.fn = "compile"
  /\ \E r \in {extractComponents(call.context, Store(schemaCache, reads))} :
        /\ ret' = [ex |-> r.ex, v |-> IF r.ex THEN "" ELSE generateTypeScript(r.v),
                   components |-> IF r.ex THEN <<>> ELSE r.v,
                   maxd |-> r.st.maxd, log |-> r.st.log]
        /\ schemaCache' = r.st.cache
        /\ reads' = r.st.reads
        /\ pc' = IF r.ex THEN "threw" ELSE "returned"
  /\ UNCHANGED <<files, components, idx, output, call>>

CallGetByPointer ==
  /\ pc = "call"
  /\ call.fn = "getByPointer"
  /\ ret' = [ex |-> FALSE, v |-> getByPointer(call.schema, call.pointer),
             maxd |-> -1, log |-> <<>>]
  /\ pc' = "returned"
  /\ UNCHANGED <<files, schemaCache, reads, components, idx, output, call>>

\* two references resolved one after the other in the same run
CallResolveRefTwice ==
  /\ pc = "call"
  /\ call.fn = "resolveRef"
  /\ \E r1 \in {resolveRef(call.first.ref, call.first.context,
                            Store(schemaCache, reads))} :
       \E r2 \in {IF r1.ex THEN r1
                  ELSE resolveRef(call.second.ref, call.second.context, r1.st)} :
         /\ ret' = [ex |-> r2.ex, v |-> "", maxd |-> r2.st.maxd, log |-> r2.st.log,
                    first |-> [ok |-> r1.ok, ctx |-> r1.ctx],
                    second |-> [ok |-> r2.ok, ctx |-> r2.ctx]]
         /\ schemaCache' = r2.st.cache
         /\ reads' = r2.st.reads
         /\ pc' = IF r2.ex THEN "threw" ELSE "returned"
  /\ UNCHANGED <<files, components, idx, output, call>>

\* the same property resolved for two components one after the other; each
\* call starts its own history
CallResolveSchemaTwice ==
  /\ pc = "call"
  /\ call.fn = "resolveSchema"
  /\ \E r1 \in {ResolveTopLevel(call.schema, call.context, Store(schemaCache, reads))} :
       \E r2 \in {IF r1.ex THEN r1
                  ELSE ResolveTopLevel(call.schema, call.context,
                                       [r1.st EXCEPT !.log = <<>>])} :
         /\ ret' = [ex |-> r2.ex, v |-> "", maxd |-> r2.st.maxd,
                    log |-> IF r1.ex THEN r1.st.log ELSE r1.st.log \o r2.st.log,
                    first |-> [ctx |-> r1.ctx, log |-> r1.st.log],
                    second |-> [ctx |-> r2.ctx, log |-> r2.st.log]]
         /\ schemaCache' = r2.st.cache
         /\ reads' = r2.st.reads
         /\ pc' = IF r2.ex THEN "threw" ELSE "returned"
  /\ UNCHANGED <<files, components, idx, output, call>>

CallGenerateBehavior ==
  /\ pc = "call"
  /\ call.fn = "generateBehavior"
  /\ ret' = [ex |-> FALSE, v |-> "", maxd |-> -1, log |-> <<>>,
             out |-> generateBehavior(call.name, call.types)]
  /\ pc' = "returned"
  /\ UNCHANGED <<files, schemaCache, reads, components, idx, output, call>>

CallGenerateAllBehaviors ==
  /\ pc = "call"
  /\ call.fn = "generateAllBehaviors"
  /\ ret' = [ex |-> FALSE, v |-> "", maxd |-> -1, log |-> <<>>,
             behaviors |-> generateAllBehaviors(call.typeMap)]
  /\ pc' = "returned"
  /\ UNCHANGED <<files, schemaCache, reads, components, idx, output, call>>

NextCall ==
  \/ CallJsonTypeToTsType
  \/ CallRenderObject
  \/ CallComponent
  \/ CallResolveRefTwice
  \/ CallGetByPointer
  \/ CallCompile
  \/ CallResolveSchemaTwice
  \/ CallGenerateBehavior
  \/ CallGenerateAllBehaviors

SpecCall == InitCall /\ [][NextCall]_vars

(***************************************************************************)
(* The download of the schema repository (ensureRepoReady)                 *)
(*                                                                         *)
(* files is the content of REPO_DIR, keyed by the path below it; call is   *)
(* the frame of the call: how many calls were started, how many requests   *)
(* were sent, and the entry of the archive the extraction stands at.       *)
(***************************************************************************)
\* `${REPO.split('/')[1]}-${REF}`
ARCHIVE_PREFIX == Split(REPO, "/")[2] \o "-" \o REF

\* path.join(REPO_DIR, '.ready'), below REPO_DIR
Marker == ".ready"

\* the entries of the archive of the pinned commit, in the order of the stream
Archive ==
  <<[name |-> "pax_global_header", type |-> "file", data |-> JNull],
    [name |-> ARCHIVE_PREFIX \o "/", type |-> "directory", data |-> JNull],
    [name |-> ARCHIVE_PREFIX \o "/source/", type |-> "directory", data |-> JNull],
    [name |-> ARCHIVE_PREFIX \o "/" \o COMMON_SCHEMA, type |-> "file",
     data |-> CommonDoc],
    [name |-> ARCHIVE_PREFIX \o "/latest", type |-> "symlink", data |-> JNull],
    [name |-> ARCHIVE_PREFIX \o "/" \o ROOT_SCHEMA, type |-> "file",
     data |-> RootDoc]>>

RECURSIVE StripLeadingSlashes(_)
\* .replace(/^\/+/, '')
StripLeadingSlashes(p) ==
  IF StartsWith(p, "/") THEN StripLeadingSlashes(Slice(p, 1)) ELSE p

\* header.name.slice(ARCHIVE_PREFIX.length).replace(/^\/+/, '')
RelativeOf(name) == StripLeadingSlashes(Slice(name, Len(ARCHIVE_PREFIX)))

\* path.join(REPO_DIR, relative), below REPO_DIR and without a closing slash
TargetPath(relative) ==
  LET joined == PosixNormalize(relative)
  IN IF Ch(joined, Len(joined)) = "/" THEN SubSeq(joined, 1, Len(joined) - 1)
     ELSE joined

\* what the entry handler does with an entry
EntryStep(header) ==
  IF ~StartsWith(header.name, ARCHIVE_PREFIX) THEN "skip"
  ELSE IF RelativeOf(header.name) = "" THEN "skip"
  ELSE IF header.type = "directory" THEN "mkdir"
  ELSE IF header.type # "file" THEN "skip"
  ELSE "write"

RECURSIVE Mkdir(_, _)
\* fs.mkdir(path, { recursive: true }): the directory and those above it
Mkdir(disk, path) ==
  IF path = "." \/ path = "" THEN disk
  ELSE LET above == Mkdir(disk, PosixDirname(path))
       IN IF path \in DOMAIN above THEN above
          ELSE [q \in (DOMAIN above) \cup {path} |->
                  IF q = path THEN [status |-> "dir", doc |-> JNull] ELSE above[q]]

\* a file of the given content; status "malformed" is a file cut short
WriteFile(disk, path, status, doc) ==
  [q \in (DOMAIN disk) \cup {path} |->
     IF q = path THEN [status |-> status, doc |-> doc] ELSE disk[q]]

\* the marker is written although entries of the archive are still to come
ExtractionEndedEarly(frame) == TRUE

\* await pipeline(bodyStream, createGunzip(), extract) has resolved
ExtractionEnded(frame) == frame.entry > Len(Archive)

\* the outcome of the call
Resolved == [ex |-> FALSE, cause |-> ""]
Rejected(cause) == [ex |-> TRUE, cause |-> cause]

InitRepo ==
  /\ files = <<>>
  /\ schemaCache = <<>>
  /\ reads = <<>>
  /\ pc = "idle"
  /\ components = <<>>
  /\ idx = 0
  /\ output = NoOutput
  /\ call = [fn |-> "ensureRepoReady", n |-> 0, fetches |-> 0, entry |-> 0]
  /\ ret = Resolved

\* ensureRepoReady() is called, by this run of the generator or the next
StartCall ==
  /\ pc \in {"idle", "returned", "rejected", "killed"}
  /\ call.n < MaxCalls
  /\ call' = [call EXCEPT !.n = @ + 1, !.entry = 0]
  /\ pc' = "access"
  /\ ret' = Resolved
  /\ UNCHANGED <<files, schemaCache, reads, components, idx, output>>

\* try { await fs.access(marker); return; } catch { }
AccessMarker ==
  /\ pc = "access"
  /\ pc' = IF Marker \in DOMAIN files THEN "returned" ELSE "rm"
  /\ UNCHANGED <<files, schemaCache, reads, components, idx, output, call, ret>>

\* await fs.rm(REPO_DIR, { recursive: true, force: true })
RemoveRepoDir ==
  /\ pc = "rm"
  /\ files' = <<>>
  /\ pc' = "mkdir"
  /\ UNCHANGED <<schemaCache, reads, components, idx, output, call, ret>>

\* await fs.mkdir(REPO_DIR, { recursive: true }), which may fail
MakeRepoDir ==
  /\ pc = "mkdir"
  /\ \E ok \in BOOLEAN :
       /\ pc' = IF ok THEN "fetch" ELSE "rejected"
       /\ ret' = IF ok THEN ret ELSE Rejected("mkdir")
  /\ UNCHANGED <<files, schemaCache, reads, components, idx, output, call>>

\* await fetch(...): it throws, or answers with a status that is not ok or
\* without a body, or answers with the archive
Fetch ==
  /\ pc = "fetch"
  /\ \E outcome \in {"archive", "status", "network"} :
       /\ call' = [call EXCEPT !.fetches = @ + 1, !.entry = 1]
       /\ pc' = IF outcome = "archive" THEN "extract" ELSE "rejected"
       /\ ret' = IF outcome = "archive" THEN ret ELSE Rejected("fetch")
  /\ UNCHANGED <<files, schemaCache, reads, components, idx, output>>

\* the handler of one entry: the entry is skipped, or its directory is made, or
\* its file is written; a failure destroys the extraction and the call rejects
ExtractEntry ==
  /\ pc = "extract"
  /\ ~ExtractionEnded(call)
  /\ \E header \in {Archive[call.entry]}, ok \in BOOLEAN :
       \E step \in {EntryStep(header)}, target \in {TargetPath(RelativeOf(header.name))} :
         /\ step = "skip" => ok
         /\ files' = IF step = "skip" THEN files
                     ELSE IF step = "mkdir"
                     THEN (IF ok THEN Mkdir(files, target) ELSE files)
                     ELSE WriteFile(Mkdir(files, PosixDirname(target)), target,
                                    IF ok THEN "ok" ELSE "malformed", header.data)
         /\ call' = [call EXCEPT !.entry = IF ok THEN @ + 1 ELSE @]
         /\ pc' = IF ok THEN "extract" ELSE "rejected"
         /\ ret' = IF ok THEN ret ELSE Rejected("entry")
  /\ UNCHANGED <<schemaCache, reads, components, idx, output>>

\* the body breaks off or does not decompress: the pipeline rejects
StreamFails ==
  /\ pc = "extract"
  /\ ~ExtractionEnded(call)
  /\ pc' = "rejected"
  /\ ret' = Rejected("stream")
  /\ UNCHANGED <<files, schemaCache, reads, components, idx, output, call>>

\* await fs.writeFile(marker, 'ready', 'utf8'); a failed write may leave an
\* empty marker behind
WriteMarker ==
  /\ pc = "extract"
  /\ ExtractionEnded(call)
  /\ \E ok \in BOOLEAN, left \in BOOLEAN :
       /\ ok => left
       /\ files' = IF left
                   THEN WriteFile(files, Marker, IF ok THEN "ok" ELSE "malformed",
                                  JStr(IF ok THEN "ready" ELSE ""))
                   ELSE files
       /\ pc' = IF ok THEN "returned" ELSE "rejected"
       /\ ret' = IF ok THEN Resolved ELSE Rejected("marker")
  /\ UNCHANGED <<schemaCache, reads, components, idx, output, call>>

\* the process is stopped while the call is under way
Kill ==
  /\ pc \in {"access", "rm", "mkdir", "fetch", "extract"}
  /\ pc' = "killed"
  /\ ret' = Rejected("killed")
  /\ UNCHANGED <<files, schemaCache, reads, components, idx, output, call>>

NextRepo ==
  \/ StartCall
  \/ AccessMarker
  \/ RemoveRepoDir
  \/ MakeRepoDir
  \/ Fetch
  \/ ExtractEntry
  \/ StreamFails
  \/ WriteMarker
  \/ Kill

SpecRepo == InitRepo /\ [][NextRepo]_vars

(***************************************************************************)
(* What the properties are stated in                                       *)
(***************************************************************************)
Finished == pc \in {"returned", "threw"}

RECURSIVE Squash(_)
\* a type expression without its layout (blanks and line breaks)
Squash(text) ==
  IF text = "" THEN ""
  ELSE IF Ch(text, 1) \in {" ", "\n"} THEN Squash(Slice(text, 1))
  ELSE Ch(text, 1) \o Squash(Slice(text, 1))

Contains(text, sub) ==
  \E i \in 1..(Len(text) - Len(sub) + 1) : SubSeq(text, i, i + Len(sub) - 1) = sub

Restrict(schema, keys) == JObj(SelectSeq(schema.v, LAMBDA e : e[1] \in keys))

\* the store a call starts from in the current state
Now == Store(schemaCache, reads)

\* JSON Schema's reading of a reference: a `#' pointer starts at the root of
\* the document the referring node lives in
DocTarget(ref, path) ==
  LET none == [ok |-> FALSE, schema |-> JNull, path |-> path]
      sp == SplitRef(ref)
      other == PosixNormalize(PosixJoin(PosixDirname(path), sp.refPath))
      in(q, pointer) ==
        IF ~ReadOk(q) THEN none
        ELSE LET node == getByPointer(files[q].doc, pointer)
             IN IF Truthy(node) THEN [ok |-> TRUE, schema |-> node, path |-> q]
                ELSE none
  IN IF StartsWith(ref, "#") THEN in(path, ref)
     ELSE IF sp.hasFragment /\ StartsWith(sp.fragment, "/")
     THEN in(other, "#" \o sp.fragment)
     ELSE in(other, "#")

MaxChain == 8

RECURSIVE FinalTarget(_, _, _)
\* follows a chain of references to the node it ends in; ok is FALSE when a
\* link does not resolve, cyclic is TRUE when the chain does not end
FinalTarget(node, path, fuel) ==
  IF ~Truthy(Get(node, "$ref"))
  THEN [ok |-> TRUE, cyclic |-> FALSE, schema |-> node, path |-> path]
  ELSE IF fuel = 0
  THEN [ok |-> FALSE, cyclic |-> TRUE, schema |-> node, path |-> path]
  ELSE LET next == DocTarget(Get(node, "$ref").v, path)
       IN IF next.ok THEN FinalTarget(next.schema, next.path, fuel - 1)
          ELSE [ok |-> FALSE, cyclic |-> FALSE, schema |-> node, path |-> path]

RECURSIVE RefsIn(_)
\* the reference strings that occur in a node, at any nesting
RefsIn(node) ==
  IF node.t = "object"
  THEN UNION {(IF node.v[i][1] = "$ref" /\ node.v[i][2].t = "string"
               THEN {node.v[i][2].v} ELSE RefsIn(node.v[i][2])) :
              i \in 1..Len(node.v)}
  ELSE IF node.t = "array"
  THEN UNION {RefsIn(node.v[i]) : i \in 1..Len(node.v)}
  ELSE {}

\* the (document-path, ref-string) keys one step after key k
KeysAfter(k) ==
  LET target == DocTarget(k[2], k[1])
  IN IF target.ok THEN {<<target.path, r>> : r \in RefsIn(target.schema)} ELSE {}

RECURSIVE KeysFrom(_)
\* the keys reachable from the keys of S, S included
KeysFrom(S) ==
  LET more == S \cup UNION {KeysAfter(k) : k \in S}
  IN IF more = S THEN S ELSE KeysFrom(more)

\* the chain that starts at `ref' in document `path' comes back to a key
CyclicFrom(ref, path) ==
  \E k \in KeysFrom({<<path, ref>>}) : k \in KeysFrom(KeysAfter(k))

\* the call is about a reference whose chain cycles
CallIsCyclic ==
  /\ call.family = "ref"
  /\ CyclicFrom(Get(call.schema, "$ref").v, call.context.path)

\* the cycle is made of $ref nodes only
CallIsRefCycle ==
  /\ call.family = "ref"
  /\ FinalTarget(call.schema, call.context.path, MaxChain).cyclic

(***************************************************************************)
(* C1: for every acyclic chain of references, synthesizing {$ref: X} gives *)
(* the same type expression as synthesizing the node X finally             *)
(* dereferences to.  Type expressions are compared without their layout.   *)
(***************************************************************************)
C1_RefIsItsTarget ==
  (/\ pc = "returned"
   /\ call.fn = "jsonTypeToTsType"
   /\ call.family = "ref"
   /\ call.depth = 0
   /\ Len(call.schema.v) = 1
   /\ call.context.schema = files[call.context.path].doc
   /\ FinalTarget(call.schema, call.context.path, MaxChain).ok)
  => LET final == FinalTarget(call.schema, call.context.path, MaxChain)
         direct == jsonTypeToTsType(final.schema,
                                    [schema |-> files[final.path].doc,
                                     path |-> final.path], 0, Now)
     IN /\ ~direct.ex
        /\ Squash(ret.v) = Squash(direct.v)

(***************************************************************************)
(* C3: every `#/...' reference the synthesizer hands to resolveRef yields  *)
(* the node the pointer addresses from the root of the document named by   *)
(* the context's path, and the result carries that path.                   *)
(***************************************************************************)
C3_PointerFromDocumentRoot ==
  Finished =>
    \A i \in 1..Len(ret.log) :
      LET e == ret.log[i]
          expected == getByPointer(files[e.context.path].doc, e.ref)
      IN StartsWith(e.ref, "#/") =>
           IF Truthy(expected)
           THEN e.ok /\ e.ctx.schema = expected /\ e.ctx.path = e.context.path
           ELSE ~e.ok

(***************************************************************************)
(* C2 as stated: when the chain of references of a component comes back to *)
(* an already-visited key, resolveSchema followed by jsonTypeToTsType      *)
(* terminates, never works deeper than the recursion bound, and renders    *)
(* the cyclic branch as "unknown".                                         *)
(***************************************************************************)
C2_CycleRendersUnknown ==
  (Finished /\ call.fn = "component" /\ CallIsCyclic)
  => /\ pc = "returned"
     /\ ret.maxd <= 20
     /\ ret.v = "unknown"

(***************************************************************************)
(* C2 amended: on such a graph the synthesis terminates and no call works  *)
(* at a depth above 20; a cycle made of $ref nodes only renders as         *)
(* "unknown", while a cycle through the properties of an object is         *)
(* unrolled down to the bound and has "unknown" at its innermost place.    *)
(***************************************************************************)
C2_CycleEndsInUnknown ==
  (Finished /\ call.fn = "component" /\ CallIsCyclic)
  => /\ pc = "returned"
     /\ ret.maxd <= 20
     /\ Contains(ret.v, "unknown")
     /\ CallIsRefCycle => ret.v = "unknown"

\* the two documents that refer to each other were followed down to the bound
C2_Witness ==
  /\ pc = "returned"
  /\ call.fn = "component"
  /\ CallIsCyclic
  /\ CallIsRefCycle
  /\ call.context.path = X_SCHEMA
  /\ ret.maxd = 20
  /\ ret.v = "unknown"

\* the self-reference nested in the root was unrolled
C2_UnrolledWitness ==
  /\ pc = "returned"
  /\ call.fn = "component"
  /\ CallIsCyclic
  /\ ~CallIsRefCycle
  /\ ret.v # "unknown"

(***************************************************************************)
(* C4: the union synthesized for a oneOf/anyOf node has no duplicate       *)
(* alternatives (also when a branch is a union itself), keeps them in      *)
(* first-occurrence order, is "unknown" when no branch survives and is the *)
(* alternative alone when exactly one distinct alternative survives.       *)
(***************************************************************************)
RECURSIVE AlternativesFrom(_, _, _, _)
\* the members of a union text: its pieces between the ` | ' that lie outside
\* every bracket
AlternativesFrom(text, i, nesting, piece) ==
  IF i > Len(text) THEN <<piece>>
  ELSE LET c == Ch(text, i)
       IN IF nesting = 0 /\ i + 2 <= Len(text) /\ SubSeq(text, i, i + 2) = " | "
          THEN <<piece>> \o AlternativesFrom(text, i + 3, 0, "")
          ELSE AlternativesFrom(text, i + 1,
                                IF c \in {"{", "[", "("} THEN nesting + 1
                                ELSE IF c \in {"}", "]", ")"} THEN nesting - 1
                                ELSE nesting,
                                piece \o c)

Alternatives(text) == AlternativesFrom(text, 1, 0, "")

NoDuplicates(xs) == \A i, j \in 1..Len(xs) : xs[i] = xs[j] => i = j

\* the alternatives of every branch, in branch order
BranchAlternatives(schema, context) ==
  LET options == UnionOptions(schema)
      RECURSIVE AltsFrom(_)
      AltsFrom(i) ==
        IF i > Len(options) THEN <<>>
        ELSE Alternatives(jsonTypeToTsType(options[i], context, 1, Now).v)
             \o AltsFrom(i + 1)
  IN AltsFrom(1)

C4_UnionHasNoDuplicates ==
  (pc = "returned" /\ call.family = "union")
  => LET alts == Alternatives(ret.v)
         all == BranchAlternatives(call.schema, call.context)
     IN IF Len(all) = 0 THEN ret.v = "unknown"
        ELSE /\ NoDuplicates(alts)
             /\ alts = Dedupe(all, <<>>)
             /\ Len(Dedupe(all, <<>>)) = 1 => ret.v = all[1]

(***************************************************************************)
(* C5: renderObject emits exactly one field per entry of `properties', in  *)
(* their order, and a field has no optional marker if and only if its name *)
(* is in `required'; a required name that is no property adds no field.    *)
(***************************************************************************)
\* the lines of an object text that declare a field at the given depth
FieldLines(text, depth) ==
  LET indent == Repeat("  ", depth)
  IN SelectSeq(Split(text, "\n"),
               LAMBDA line :
                 /\ StartsWith(line, indent)
                 /\ Len(line) > Len(indent)
                 /\ Ch(line, Len(indent) + 1) # " "
                 /\ ~StartsWith(Slice(line, Len(indent)), "/**")
                 /\ ~StartsWith(Slice(line, Len(indent)), "[key: string]"))

\* the line declares `key', required or optional
Declares(line, key, isRequired) ==
  LET rest == Squash(line)
      mark == IF isRequired THEN ":" ELSE "?:"
  IN StartsWith(rest, key \o mark) \/ StartsWith(rest, "'" \o key \o "'" \o mark)

RequiredNames(schema) ==
  LET req == Get(schema, "required")
  IN IF req.t = "array" THEN {req.v[i].v : i \in 1..Len(req.v)} ELSE {}

C5_FieldsFollowProperties ==
  (pc = "returned" /\ call.fn = "renderObject")
  => LET props == Get(call.schema, "properties").v
         fields == FieldLines(ret.v, call.depth)
     IN /\ Len(fields) = Len(props)
        /\ \A i \in 1..Len(props) :
             Declares(fields[i], props[i][1],
                      props[i][1] \in RequiredNames(call.schema))

\* three properties, one of them required, and a required name without one
C5_Witness ==
  /\ pc = "returned"
  /\ call.fn = "renderObject"
  /\ Len(Get(call.schema, "properties").v) = 3
  /\ RequiredNames(call.schema) = {"name", "ghost"}
  /\ Len(FieldLines(ret.v, call.depth)) = 3

(***************************************************************************)
(* C6: a node without $ref that sets several of the fields the dispatch    *)
(* looks at is synthesized by the first matching rule, in the order        *)
(* oneOf/anyOf, allOf, enum, const, type list, array with items, object,   *)
(* bare primitive; of oneOf and anyOf together only oneOf is used.  The    *)
(* result is that of the node reduced to the fields of that rule.          *)
(***************************************************************************)
FirstRuleFields(schema) ==
  LET type == Get(schema, "type")
      object == {"type", "properties", "required", "additionalProperties"}
  IN IF Has(schema, "oneOf") THEN {"oneOf"}
     ELSE IF Has(schema, "anyOf") THEN {"anyOf"}
     ELSE IF Has(schema, "allOf") THEN {"allOf"}
     ELSE IF Has(schema, "enum") THEN {"enum"}
     ELSE IF Has(schema, "const") THEN {"const"}
     ELSE IF type.t = "array" THEN object \cup {"items"}
     ELSE IF IsStr(type, "array") /\ Has(schema, "items") THEN {"type", "items"}
     ELSE IF IsStr(type, "object") \/ Has(schema, "properties") THEN object
     ELSE {"type"}

C6_FirstRuleWins ==
  (pc = "returned" /\ call.family = "dispatch")
  => ret.v = jsonTypeToTsType(Restrict(call.schema, FirstRuleFields(call.schema)),
                              call.context, call.depth, Now).v

\* every field is set and the oneOf branches alone make the result
C6_Witness ==
  /\ pc = "returned"
  /\ call.family = "dispatch"
  /\ call.depth = 0
  /\ \A k \in {"oneOf", "anyOf", "allOf", "enum", "const", "type", "items",
               "properties"} : Has(call.schema, k)
  /\ ret.v = "'a' | 'b'"

C8_DepthGuardAt20 ==
  (Finished /\ call.fn = "jsonTypeToTsType")
  => /\ call.depth > 20 =>
          /\ pc = "returned"
          /\ ret.v = "unknown"
          /\ ret.maxd = -1
          /\ ret.log = <<>>
     /\ call.depth <= 20 => ret.maxd >= call.depth

\* a reference that resolves, called above the bound and called at the bound
C8_Witness ==
  /\ pc = "returned"
  /\ call.fn = "jsonTypeToTsType"
  /\ Get(call.schema, "$ref") = JStr("#/definitions/Pos")
  /\ call.context.path = ROOT_SCHEMA
  /\ call.depth = 21
  /\ ret.v = "unknown"

C8_AtBoundWitness ==
  /\ pc = "returned"
  /\ call.fn = "jsonTypeToTsType"
  /\ call.family = "dispatch"
  /\ call.depth = 20
  /\ ret.v = "string"

(***************************************************************************)
(* C9: in a run every path is read and parsed at most once, and an entry   *)
(* of the cache, once inserted, is never replaced or removed, so every     *)
(* later load of the path returns the node the first load stored.          *)
(***************************************************************************)
ReadAtMostOnce(rd) == \A i, j \in 1..Len(rd) : rd[i] = rd[j] => i = j

C9_CacheIsAppendOnly ==
  [][/\ ReadAtMostOnce(reads')
     /\ \A p \in DOMAIN schemaCache :
          /\ p \in DOMAIN schemaCache'
          /\ schemaCache'[p] = schemaCache[p]
          /\ loadSchemaContext(p, Store(schemaCache', reads')).ctx.schema
               = schemaCache[p]]_vars

\* common.json was asked for by two components and read once
C9_Witness ==
  /\ pc = "done"
  /\ Len(components) = 7
  /\ reads = <<ROOT_SCHEMA, HEALTH_SCHEMA, COMMON_SCHEMA>>
  /\ DOMAIN schemaCache = {ROOT_SCHEMA, HEALTH_SCHEMA, COMMON_SCHEMA}

(***************************************************************************)
(* C10: when the load of a document fails, of the root or of a document    *)
(* reached through a reference, the run fails, the cache has no entry for  *)
(* the path and the output file is not written.                            *)
(***************************************************************************)
C10_FailedLoadAbortsRun ==
  \A i \in 1..Len(reads) :
    ~ReadOk(reads[i]) =>
      /\ pc = "failed"
      /\ ret.ex
      /\ reads[i] \notin DOMAIN schemaCache
      /\ output = NoOutput

\* the run failed on common.json after four components had been extracted
C10_Witness ==
  /\ pc = "failed"
  /\ Len(components) = 4
  /\ reads = <<ROOT_SCHEMA, HEALTH_SCHEMA, COMMON_SCHEMA>>
  /\ COMMON_SCHEMA \notin DOMAIN schemaCache
  /\ output = NoOutput

(***************************************************************************)
(* C11: when resolveRef returns absent for a $ref (a pointer segment is    *)
(* missing in the same document or in the loaded cross-file document) the  *)
(* call is not aborted: the node is synthesized as "unknown", a component  *)
(* that is such a node has the type "unknown", and in an object the other  *)
(* fields are rendered as they are without the property that refers.       *)
(***************************************************************************)
\* resolveRef(ref, context) has a pointer that finds nothing
AbsentIn(context, ref) ==
  LET sp == SplitRef(ref)
      normalized == NormalizedTarget(context.path, sp.refPath)
  IN IF StartsWith(ref, "#/") THEN ~Truthy(getByPointer(context.schema, ref))
     ELSE /\ ~StartsWith(ref, "#")
          /\ ReadOk(normalized)
          /\ sp.hasFragment /\ StartsWith(sp.fragment, "/")
          /\ ~Truthy(getByPointer(files[normalized].doc, "#" \o sp.fragment))

\* the object schema without the property `key'
WithoutProperty(schema, key) ==
  JObj([i \in 1..Len(schema.v) |->
          IF schema.v[i][1] = "properties"
          THEN <<"properties",
                 JObj(SelectSeq(schema.v[i][2].v, LAMBDA e : e[1] # key))>>
          ELSE schema.v[i]])

\* the lines of a text that do not declare `key'
LinesWithout(text, key) ==
  SelectSeq(Split(text, "\n"),
            LAMBDA line : ~Declares(line, key, TRUE) /\ ~Declares(line, key, FALSE))

C11_AbsentRefIsUnknown ==
  /\ (/\ Finished
      /\ call.family = "ref"
      /\ call.depth <= 20
      /\ AbsentIn(call.context, Get(call.schema, "$ref").v))
     => /\ pc = "returned"
        /\ ret.v = "unknown"
        /\ ret.log # <<>>
        /\ ~ret.log[1].ok
  /\ (Finished /\ call.fn = "renderObject" /\ Has(Get(call.schema, "properties"), "gone"))
     => /\ pc = "returned"
        /\ \E i \in 1..Len(FieldLines(ret.v, call.depth)) :
             Declares(FieldLines(ret.v, call.depth)[i], "gone",
                      "gone" \in RequiredNames(call.schema))
             /\ Contains(FieldLines(ret.v, call.depth)[i], ": unknown;")
        /\ LinesWithout(ret.v, "gone")
             = Split(renderObject(WithoutProperty(call.schema, "gone"), call.context,
                                  call.depth, Now).v, "\n")

\* an object whose second property refers to a definition that is not there
C11_Witness ==
  /\ pc = "returned"
  /\ call.fn = "renderObject"
  /\ call.depth = 1
  /\ Len(Get(call.schema, "properties").v) = 3
  /\ Get(call.schema, "properties").v[2][1] = "gone"
  /\ Contains(ret.v, "  gone?: unknown;")
  /\ Contains(ret.v, "  hp?: number;")

\* a cross-file reference whose pointer finds nothing in the loaded document
C11_CrossFileWitness ==
  /\ pc = "returned"
  /\ call.fn = "jsonTypeToTsType"
  /\ Get(call.schema, "$ref") = JStr("../../../common.json#/definitions/Nope")
  /\ call.context.path = ROOT_SCHEMA
  /\ COMMON_SCHEMA \in DOMAIN schemaCache
  /\ ret.v = "unknown"

(***************************************************************************)
(* C12 as stated: a failed read of a document reached while one component  *)
(* is synthesized aborts that component only, whose type becomes           *)
(* "unknown"; the run goes on, and the remaining components are            *)
(* synthesized and emitted.                                                *)
(***************************************************************************)
\* a document other than the root was asked for and could not be read
ExternalReadFailed(rd) == \E i \in 2..Len(rd) : ~ReadOk(rd[i])

C12_FailedReadDegradesComponent ==
  (ReadOk(ROOT_SCHEMA) /\ ExternalReadFailed(reads))
  => /\ pc # "failed"
     /\ pc = "done" =>
          /\ Len(components) = Len(RootEntries(RootDoc))
          /\ \E i \in 1..Len(components) : components[i].type = "unknown"

(***************************************************************************)
(* C12 amended: a failed read of a document reached while one component is *)
(* synthesized aborts the whole run: the step that meets it ends the run   *)
(* as failed, neither that component nor a later one is added, nothing is  *)
(* emitted, and a failed run takes no further step.                        *)
(***************************************************************************)
C12_FailedReadAbortsRun ==
  [][/\ pc # "failed"
     /\ ExternalReadFailed(reads') =>
          /\ pc' = "failed"
          /\ ret'.ex
          /\ components' = components
          /\ Len(components') < Len(RootEntries(RootDoc))
          /\ output' = NoOutput]_vars

\* health.json is missing: the run ends at the first component, none emitted
C12_Witness ==
  /\ pc = "failed"
  /\ reads = <<ROOT_SCHEMA, HEALTH_SCHEMA>>
  /\ HEALTH_SCHEMA \notin DOMAIN files
  /\ components = <<>>
  /\ output = NoOutput

(***************************************************************************)
(* C13: a cross-file reference is resolved from the directory of the       *)
(* referring document with `.' and `..' resolved: two references to the    *)
(* same file, written with different relative prefixes in the same or in   *)
(* different documents, have the same cache key, the file is read once,    *)
(* and both resolutions return the same node and the same path.            *)
(***************************************************************************)
Occurrences(rd, p) == Cardinality({i \in 1..Len(rd) : rd[i] = p})

C13_EquivalentPrefixesShareKey ==
  (Finished /\ call.family = "pair")
  => IF ReadOk(call.to)
     THEN /\ pc = "returned"
          /\ ret.first = ret.second
          /\ ret.first.ok => ret.first.ctx.path = call.to
          /\ call.to \in DOMAIN schemaCache
          /\ DOMAIN schemaCache
               = {call.first.context.path, call.second.context.path, call.to}
          /\ Occurrences(reads, call.to) = 1
     ELSE /\ pc = "threw"
          /\ DOMAIN schemaCache = {call.first.context.path, call.second.context.path}

\* common.json reached from the root with a plain prefix and from a sibling
\* document through a detour: one read, one node
C13_Witness ==
  /\ pc = "returned"
  /\ call.family = "pair"
  /\ call.first.context.path = ROOT_SCHEMA
  /\ call.second.context.path = X_SCHEMA
  /\ call.first.ref = "../../../../source/common.json#/definitions/Base"
  /\ call.second.ref = "../../source/behavior/../../source/common.json#/definitions/Base"
  /\ ret.first.ok
  /\ ret.second.ctx = [schema |-> Get(Get(CommonDoc, "definitions"), "Base"),
                       path |-> COMMON_SCHEMA]
  /\ reads = <<ROOT_SCHEMA, X_SCHEMA, COMMON_SCHEMA>>

(***************************************************************************)
(* C14: getByPointer never throws and returns absent as soon as a segment  *)
(* is missing from the current value or the current value is not a         *)
(* traversable structure; a segment is present only when it is a key of    *)
(* the current value.  Segments are compared after decoding.               *)
(***************************************************************************)
\* part is a key of the value itself (an entry, an index, the length)
OwnKey(current, part) ==
  CASE current.t = "object" -> Has(current, part)
    [] current.t = "array" -> part \in IndexKeys(current.v) \cup {"length"}
    [] OTHER -> FALSE

RECURSIVE OwnWalk(_, _)
OwnWalk(current, parts) ==
  IF Len(parts) = 0 THEN current
  ELSE IF OwnKey(current, Head(parts))
       THEN OwnWalk(Member(current, Head(parts)), Tail(parts))
       ELSE JNull

\* the segments of a `#/...' pointer, decoded
PartsOf(pointer) ==
  LET split == Split(Slice(pointer, 2), "/")
  IN [i \in 1..Len(split) |-> Unescape(split[i])]

C14_AbsentWhenSegmentMissing ==
  (Finished /\ call.family = "pointer" /\ StartsWith(call.pointer, "#/"))
  => /\ pc = "returned"
     /\ ret.v = OwnWalk(call.schema, PartsOf(call.pointer))

(***************************************************************************)
(* C15: getByPointer returns the root node unchanged for the pointer `#'   *)
(* and for every pointer that does not start with `#/'; resolveRef returns *)
(* the context it was given, unchanged, for the ref `#'.                   *)
(***************************************************************************)
C15_RootForOtherPointers ==
  /\ (Finished /\ call.family = "pointer" /\ ~StartsWith(call.pointer, "#/"))
     => pc = "returned" /\ ret.v = call.schema
  /\ (/\ Finished
      /\ call.family = "ref"
      /\ call.depth <= 20
      /\ Get(call.schema, "$ref") = JStr("#"))
     => /\ ret.log # <<>>
        /\ ret.log[1].ref = "#"
        /\ ret.log[1].ok
        /\ ret.log[1].ctx = call.context
        /\ getByPointer(call.context.schema, "#") = call.context.schema

\* a pointer without the leading `#/' handed the whole document back
C15_Witness ==
  /\ pc = "returned"
  /\ call.family = "pointer"
  /\ call.pointer = "/definitions/A"
  /\ call.schema = PointerDoc
  /\ ret.v = PointerDoc

\* the ref `#' in a context that is a node below the root of its document
C15_RefWitness ==
  /\ pc = "returned"
  /\ call.fn = "jsonTypeToTsType"
  /\ call.family = "ref"
  /\ call.depth = 0
  /\ Get(call.schema, "$ref") = JStr("#")
  /\ call.context.schema # files[call.context.path].doc
  /\ ret.log[1].ctx = call.context

(***************************************************************************)
(* C16: every segment of a pointer is decoded before the lookup: each `~1' *)
(* becomes `/', each `~0' becomes `~', each `%3A' becomes `:', and the     *)
(* decoding is single-pass in effect: `~01' is the key `~1', not `/'.      *)
(***************************************************************************)
RECURSIVE SinglePass(_)
\* one scan from the left; what a replacement puts out is not scanned again
SinglePass(part) ==
  IF part = "" THEN ""
  ELSE IF StartsWith(part, "~1") THEN "/" \o SinglePass(Slice(part, 2))
  ELSE IF StartsWith(part, "~0") THEN "~" \o SinglePass(Slice(part, 2))
  ELSE IF StartsWith(part, "%3A") THEN ":" \o SinglePass(Slice(part, 3))
  ELSE Ch(part, 1) \o SinglePass(Slice(part, 1))

\* the pointer `#/definitions/<segment>' with one segment of the pool
OneSegment(pointer) ==
  /\ StartsWith(pointer, "#/definitions/")
  /\ Slice(pointer, Len("#/definitions/")) \in Segments \ {"constructor", "toString"}
  /\ ~Contains(Slice(pointer, Len("#/definitions/")), "/")

C16_SegmentsAreDecodedOnce ==
  (Finished /\ call.family = "pointer" /\ call.schema = PointerDoc
     /\ OneSegment(call.pointer))
  => LET key == SinglePass(Slice(call.pointer, Len("#/definitions/")))
         definitions == Get(PointerDoc, "definitions")
     IN ret.v = IF Has(definitions, key) THEN Get(definitions, key) ELSE JNull

\* the segment ~01 found the key ~1
C16_Witness ==
  /\ pc = "returned"
  /\ call.family = "pointer"
  /\ call.schema = PointerDoc
  /\ call.pointer = "#/definitions/~01"
  /\ ret.v = Const("tilde one")

\* the segments with ~1, ~0 and %3A found the keys with `/', `~' and `:'
C16_EscapesWitness ==
  /\ pc = "returned"
  /\ call.family = "pointer"
  /\ call.schema = PointerDoc
  /\ \/ call.pointer = "#/definitions/a~1b" /\ ret.v = Const("solidus inside")
     \/ call.pointer = "#/definitions/m~0n" /\ ret.v = Const("tilde inside")
     \/ call.pointer = "#/definitions/minecraft%3Aid" /\ ret.v = Const("colon inside")

(***************************************************************************)
(* C17: generateTypeScript emits one type declaration per component, in    *)
(* the order of the component list, which is the enumeration order of the  *)
(* properties of the root schema; the EntityComponents record lists the    *)
(* original key of every component exactly once, in the same order, as an  *)
(* optional member that refers to the type name declared for it.           *)
(***************************************************************************)
\* the lines of a text, found from the places of its line breaks
LinesOf(text) ==
  LET breaks == {i \in 1..Len(text) : Ch(text, i) = "\n"}
      break(k) == CHOOSE i \in breaks : Cardinality({j \in breaks : j < i}) = k - 1
      first(k) == IF k = 1 THEN 1 ELSE break(k - 1) + 1
      last(k) == IF k = Cardinality(breaks) + 1 THEN Len(text) ELSE break(k) - 1
  IN [k \in 1..(Cardinality(breaks) + 1) |-> SubSeq(text, first(k), last(k))]

\* the lines of the text that open a type declaration
DeclarationLines(text) ==
  SelectSeq(LinesOf(text), LAMBDA line : StartsWith(line, "export type "))

\* position of the first line equal to `line' after position `from', 0 if none
LineAfter(lines, line, from) ==
  IF \E i \in (from + 1)..Len(lines) : lines[i] = line
  THEN CHOOSE i \in (from + 1)..Len(lines) :
         lines[i] = line /\ \A j \in (from + 1)..(i - 1) : lines[j] # line
  ELSE 0

\* the lines between `export interface EntityComponents {' and its `}'
MemberLines(text) ==
  LET lines == LinesOf(text)
      open == LineAfter(lines, "export interface EntityComponents {", 0)
      close == LineAfter(lines, "}", open)
  IN IF open = 0 \/ close = 0 THEN <<>>
     ELSE SelectSeq(SubSeq(lines, open + 1, close - 1), LAMBDA line : line # "")

\* the name a declaration line declares
DeclaredName(line) ==
  LET rest == Slice(line, Len("export type "))
  IN SubSeq(rest, 1, IndexOf(rest, " = ") - 1)

\* the declaration line of the type text `type' under the name `name'
OpensWith(line, name, type) ==
  LET first == LinesOf(type)[1]
  IN line = "export type " \o name \o " = " \o first
            \o (IF first = type THEN ";" ELSE "")

C17_DeclarationsFollowProperties ==
  (pc = "returned" /\ call.fn = "compile")
  => LET keys == RootEntries(call.context.schema)
         decls == DeclarationLines(ret.v)
         members == MemberLines(ret.v)
     IN /\ Len(ret.components) = Len(keys)
        /\ Len(decls) = Len(keys)
        /\ Len(members) = Len(keys)
        /\ \A i \in 1..Len(keys) :
             /\ ret.components[i].name = keys[i][1]
             /\ OpensWith(decls[i], DeclaredName(decls[i]), ret.components[i].type)
             /\ StartsWith(DeclaredName(decls[i]), "EntityComponent")
             /\ members[i] = "  '" \o keys[i][1] \o "'?: " \o DeclaredName(decls[i]) \o ";"

\* three components, the second a record with a quoted key of its own
C17_Witness ==
  /\ pc = "returned"
  /\ call.fn = "compile"
  /\ Len(ret.components) = 3
  /\ ret.components[1].name = "tag"
  /\ ret.components[2].name = "minecraft:is.baby"
  /\ ret.components[3].name = "minecraft:health"
  /\ MemberLines(ret.v) = <<"  'tag'?: EntityComponentTag;",
                            "  'minecraft:is.baby'?: EntityComponentMinecraftIsBaby;",
                            "  'minecraft:health'?: EntityComponentMinecraftHealth;">>
  /\ Contains(ret.v, "\n  'minecraft:age'?: number;\n")

C18_CompileWitness ==
  /\ pc = "returned"
  /\ call.fn = "compile"
  /\ Len(ret.components) = 3
  /\ Len(reads) = 3

(***************************************************************************)
(* C19: a bare object node (type "object", no properties, and none of the  *)
(* fields an earlier rule takes) is synthesized as the open string-keyed   *)
(* unknown map, Record<string, unknown>.                                   *)
(***************************************************************************)
\* the node is taken by none of the rules that come before the object rule
IsBareObject(schema) ==
  /\ IsStr(Get(schema, "type"), "object")
  /\ \A k \in {"$ref", "oneOf", "anyOf", "allOf", "enum", "const", "properties",
               "additionalProperties"} : ~Has(schema, k)

C19_BareObjectIsOpenMap ==
  (/\ pc = "returned"
   /\ call.fn = "jsonTypeToTsType"
   /\ call.family = "dispatch"
   /\ call.depth <= 20
   /\ IsBareObject(call.schema))
  => ret.v = "Record<string, unknown>"

(***************************************************************************)
(* C20: for an allOf node the synthesized expression is the intersection   *)
(* of the complete type expression of every branch, in order: each branch, *)
(* also one synthesized as a union of several members, is one whole        *)
(* operand; an empty allOf yields "unknown".  The text is read with the    *)
(* precedence of the type language: `&' binds tighter than `|'.            *)
(***************************************************************************)
RECURSIVE OperandsFrom(_, _, _, _)
\* the pieces of a text between the ` & ' that lie outside every bracket
OperandsFrom(text, i, nesting, piece) ==
  IF i > Len(text) THEN <<piece>>
  ELSE LET c == Ch(text, i)
       IN IF nesting = 0 /\ i + 2 <= Len(text) /\ SubSeq(text, i, i + 2) = " & "
          THEN <<piece>> \o OperandsFrom(text, i + 3, 0, "")
          ELSE OperandsFrom(text, i + 1,
                            IF c \in {"{", "[", "("} THEN nesting + 1
                            ELSE IF c \in {"}", "]", ")"} THEN nesting - 1
                            ELSE nesting,
                            piece \o c)

\* an operand without the parentheses around it
Unparenthesized(text) ==
  IF Len(text) >= 2 /\ Ch(text, 1) = "(" /\ Ch(text, Len(text)) = ")"
  THEN SubSeq(text, 2, Len(text) - 1)
  ELSE text

\* the operands of the intersection a text denotes; none when the text is a
\* union at its top level
IntersectionOperands(text) ==
  LET parts == OperandsFrom(text, 1, 0, "")
  IN IF Len(Alternatives(text)) > 1 THEN <<>>
     ELSE [i \in 1..Len(parts) |-> Unparenthesized(parts[i])]

\* the type expression of every branch, in order
BranchTexts(schema, context) ==
  LET branches == Get(schema, "allOf").v
  IN [i \in 1..Len(branches) |-> jsonTypeToTsType(branches[i], context, 1, Now).v]

C20_AllOfIsIntersection ==
  (pc = "returned" /\ call.family = "allOf")
  => \E branches \in {BranchTexts(call.schema, call.context)} :
       IF Len(branches) = 0 THEN ret.v = "unknown"
       ELSE IF Len(branches) = 1 THEN ret.v = branches[1]
       ELSE IntersectionOperands(ret.v) = branches

\* the formula of C20 on the nodes none of whose branches is a union
C20_HoldsWithoutUnionBranches ==
  (/\ pc = "returned"
   /\ call.family = "allOf"
   /\ \A i \in 1..Len(Get(call.schema, "allOf").v) :
        Get(call.schema, "allOf").v[i] # BranchPool[4])
  => C20_AllOfIsIntersection

(***************************************************************************)
(* C21: no schema node is changed after it was loaded: after any sequence  *)
(* of resolveSchema, resolveRef, getByPointer, jsonTypeToTsType and        *)
(* renderObject calls every document held in the schema cache is equal to  *)
(* what was parsed from its file (the expansion of a list-valued type      *)
(* builds new nodes).                                                      *)
(***************************************************************************)
\* what the parse of the file at path p gave
Parsed(p) ==
  IF call.fn = "compile" /\ p = ROOT_SCHEMA THEN call.context.schema
  ELSE files[p].doc

KeyOf(entry) == entry.context.path \o "::" \o entry.ref

\* the node a step of the history dereferenced
NodeOf(log, i) == IF i = 1 THEN call.schema ELSE log[i - 1].ctx.schema

ResolvedBy(log, ctx) ==
  /\ Len(log) >= 1
  /\ \A i, j \in 1..Len(log) : KeyOf(log[i]) = KeyOf(log[j]) => i = j
  /\ log[1].context = call.context
  /\ \A i \in 1..Len(log) :
       /\ log[i].ref = Get(NodeOf(log, i), "$ref").v
       /\ i > 1 => log[i - 1].ok /\ log[i].context = log[i - 1].ctx
  /\ \E last \in {log[Len(log)]} :
       IF ~last.ok
       THEN ctx = [schema |-> NodeOf(log, Len(log)), path |-> last.context.path]
       ELSE /\ ctx = last.ctx
            /\ Truthy(Get(ctx.schema, "$ref"))
                 => \E i \in 1..Len(log) :
                      KeyOf(log[i]) = ctx.path \o "::" \o Get(ctx.schema, "$ref").v

C23_EachKeyOnceAndFreshPerCall ==
  (pc = "returned" /\ call.fn = "resolveSchema")
  => /\ ResolvedBy(ret.first.log, ret.first.ctx)
     /\ ret.second.ctx = ret.first.ctx
     /\ ret.second.log = ret.first.log

\* a cycle through two documents: x.json -> y.json -> x.json
C23_Witness ==
  /\ pc = "returned"
  /\ call.fn = "resolveSchema"
  /\ call.schema = Ref("y.json")
  /\ call.context.path = X_SCHEMA
  /\ Len(ret.first.log) = 2
  /\ ret.first.ctx = [schema |-> Ref("y.json"), path |-> X_SCHEMA]
  /\ ret.second.log = ret.first.log

\* a reference that finds nothing: the referring node comes back as it is
C23_AbsentWitness ==
  /\ pc = "returned"
  /\ call.fn = "resolveSchema"
  /\ call.schema = Ref("#/definitions/Missing")
  /\ Len(ret.first.log) = 1
  /\ ret.first.ctx = [schema |-> call.schema, path |-> call.context.path]
  /\ ret.second.ctx = ret.first.ctx

(***************************************************************************)
(* C24: for a cross-file reference path#fragment resolveRef loads the      *)
(* normalized target document; when the fragment starts with "/" it        *)
(* returns the node the pointer addresses in that document, and nothing    *)
(* when the pointer fails; otherwise it returns the whole loaded document. *)
(* The path of the returned context is the normalized path of the target   *)
(* document, not the path of the referring one.                            *)
(***************************************************************************)
C24_CrossFileTarget ==
  (pc = "returned" /\ call.family = "pair")
  => \E doc \in {files[call.to].doc} :
       /\ call.to \in DOMAIN schemaCache
       /\ IF StartsWith(call.fragment, "#/")
          THEN \E node \in {OwnWalk(doc, PartsOf(call.fragment))} :
                 IF Truthy(node)
                 THEN /\ ret.first.ok
                      /\ ret.first.ctx = [schema |-> node, path |-> call.to]
                 ELSE ~ret.first.ok
          ELSE /\ ret.first.ok
               /\ ret.first.ctx = [schema |-> doc, path |-> call.to]

\* Base of common.json, referred to from the root document
C24_Witness ==
  /\ pc = "returned"
  /\ call.family = "pair"
  /\ call.first.context.path = ROOT_SCHEMA
  /\ call.first.ref = "./../../../../source/common.json#/definitions/Base"
  /\ ret.first.ok
  /\ ret.first.ctx.path = COMMON_SCHEMA
  /\ ret.first.ctx.schema = Get(Get(CommonDoc, "definitions"), "Base")

\* a pointer that fails in the target document
C24_AbsentWitness ==
  /\ pc = "returned"
  /\ call.family = "pair"
  /\ call.to = COMMON_SCHEMA
  /\ call.fragment = "#/definitions/Amount"
  /\ ~ret.first.ok
  /\ COMMON_SCHEMA \in DOMAIN schemaCache

\* a fragment that is no pointer: the whole document of health.json
C24_WholeDocumentWitness ==
  /\ pc = "returned"
  /\ call.family = "pair"
  /\ call.first.context.path = X_SCHEMA
  /\ call.to = HEALTH_SCHEMA
  /\ call.fragment = "#Base"
  /\ ret.first.ctx = [schema |-> HealthDoc, path |-> HEALTH_SCHEMA]

(***************************************************************************)
(* C25: a node of type "array" with items (and none of the fields an       *)
(* earlier rule takes) is synthesized, when items is a list of n schemas,  *)
(* as a tuple of exactly n slots, slot i being the synthesis of items[i],  *)
(* in order, and when items is one schema as the sequence of the           *)
(* synthesized item type.  A reference to such a tuple definition yields   *)
(* the same tuple.                                                         *)
(***************************************************************************)
RECURSIVE SlotsFrom(_, _, _, _)
\* the pieces of a text between the `, ' that lie outside every bracket
SlotsFrom(text, i, nesting, piece) ==
  IF i > Len(text) THEN <<piece>>
  ELSE LET c == Ch(text, i)
       IN IF nesting = 0 /\ i + 1 <= Len(text) /\ SubSeq(text, i, i + 1) = ", "
          THEN <<piece>> \o SlotsFrom(text, i + 2, 0, "")
          ELSE SlotsFrom(text, i + 1,
                         IF c \in {"{", "[", "("} THEN nesting + 1
                         ELSE IF c \in {"}", "]", ")"} THEN nesting - 1
                         ELSE nesting,
                         piece \o c)

\* the slots of a tuple type, none for the empty tuple
TupleSlots(text) ==
  IF text = "[]" THEN <<>>
  ELSE SlotsFrom(SubSeq(text, 2, Len(text) - 1), 1, 0, "")

IsTupleText(text) ==
  Len(text) >= 2 /\ Ch(text, 1) = "[" /\ Ch(text, Len(text)) = "]"

\* the synthesis of one item of the node of the call
ItemText(item) == jsonTypeToTsType(item, call.context, call.depth + 1, Now).v

PosNode == Get(Get(RootDoc, "definitions"), "Pos")

C25_TupleAndSequence ==
  /\ (pc = "returned" /\ call.family = "items")
     => \E items \in {Get(call.schema, "items")} :
          IF items.t = "array"
          THEN /\ IsTupleText(ret.v)
               /\ TupleSlots(ret.v) = [i \in 1..Len(items.v) |-> ItemText(items.v[i])]
          ELSE /\ ret.v = "(" \o ItemText(items) \o ")[]"
               /\ ~IsTupleText(ret.v)
  /\ (/\ pc = "returned"
      /\ call.family = "ref"
      /\ call.depth = 0
      /\ call.context = [schema |-> RootDoc, path |-> ROOT_SCHEMA]
      /\ Get(call.schema, "$ref") = JStr("#/definitions/Pos"))
     => /\ ret.v = jsonTypeToTsType(PosNode, call.context, 0, Now).v
        /\ TupleSlots(ret.v) = <<"number", "number", "number">>

\* a tuple of three slots: a union, a tuple and a record
C25_Witness ==
  /\ pc = "returned"
  /\ call.family = "items"
  /\ call.depth = 0
  /\ Get(call.schema, "items").t = "array"
  /\ Get(call.schema, "items").v = <<ItemPool[3], ItemPool[4], ItemPool[6]>>
  /\ TupleSlots(ret.v) = <<"'a' | 'b'", "[number, string]", "{\n    hp?: number;\n  }">>

\* a homogeneous sequence of a union
C25_SequenceWitness ==
  /\ pc = "returned"
  /\ call.family = "items"
  /\ Get(call.schema, "items").t = "object"
  /\ Get(call.schema, "items") = ItemPool[3]
  /\ call.depth = 0
  /\ ret.v = "('a' | 'b')[]"

\* the reference to Pos
C25_RefWitness ==
  /\ pc = "returned"
  /\ call.family = "ref"
  /\ call.depth = 0
  /\ call.context = [schema |-> RootDoc, path |-> ROOT_SCHEMA]
  /\ call.schema = Ref("#/definitions/Pos")
  /\ ret.v = "[number, number, number]"

(***************************************************************************)
(* C26: renderObject appends exactly one index signature, after all the    *)
(* property fields and before the closing brace, when additionalProperties *)
(* is true (typed "unknown") or is a schema (typed by the synthesis of     *)
(* that schema), and none when additionalProperties is false or absent.    *)
(***************************************************************************)
WithoutAdditional(schema) ==
  JObj(SelectSeq(schema.v, LAMBDA e : e[1] # "additionalProperties"))

\* the numbers of the lines that open an index signature of the object itself
SignatureLines(lines, depth) ==
  {i \in 1..Len(lines) : StartsWith(lines[i], Repeat("  ", depth) \o "[key: string]: ")}

\* the text of the index signature the value of additionalProperties asks for
SignatureFor(ap) ==
  Repeat("  ", call.depth) \o "[key: string]: "
  \o (IF ap.t = "boolean" THEN "unknown"
      ELSE jsonTypeToTsType(ap, call.context, call.depth + 1, Now).v)
  \o ";"

C26_OneIndexSignatureAtTheEnd ==
  (pc = "returned" /\ call.family = "object")
  => \E ap \in {Get(call.schema, "additionalProperties")},
        lines \in {LinesOf(ret.v)},
        plain \in {LinesOf(renderObject(WithoutAdditional(call.schema), call.context,
                                        call.depth, Now).v)} :
       IF ap.t = "undefined" \/ ap = JBool(FALSE)
       THEN /\ SignatureLines(lines, call.depth) = {}
            /\ lines = plain
       ELSE \E i \in 1..Len(lines) :
              /\ SignatureLines(lines, call.depth) = {i}
              /\ SubSeq(lines, 1, i - 1) = SubSeq(plain, 1, Len(plain) - 1)
              /\ Join(SubSeq(lines, i, Len(lines) - 1), "\n") = SignatureFor(ap)
              /\ lines[Len(lines)] = plain[Len(plain)]

\* two fields, then the signature of a record that has a signature of its own
C26_Witness ==
  /\ pc = "returned"
  /\ call.family = "object"
  /\ call.depth = 1
  /\ Len(Get(call.schema, "properties").v) = 2
  /\ Get(call.schema, "additionalProperties") = AdditionalValue("record")
  /\ Contains(ret.v, ";\n  [key: string]: {\n      x?: number;\n      [key: string]: unknown;\n    };\n}")

\* additionalProperties: true
C26_TrueWitness ==
  /\ pc = "returned"
  /\ call.family = "object"
  /\ call.depth = 1
  /\ Len(Get(call.schema, "properties").v) = 1
  /\ Get(call.schema, "additionalProperties") = JBool(TRUE)
  /\ Contains(ret.v, ";\n  [key: string]: unknown;\n}")

\* additionalProperties: false
C26_FalseWitness ==
  /\ pc = "returned"
  /\ call.family = "object"
  /\ Len(Get(call.schema, "properties").v) = 3
  /\ Get(call.schema, "additionalProperties") = JBool(FALSE)
  /\ ~Contains(ret.v, "[key: string]")

(***************************************************************************)
(* C27: a field gets an annotation if and only if its schema has a title,  *)
(* a description, a default or at least one example; the title line is     *)
(* left out when the title is the same as the description; and only the    *)
(* first example is shown however many there are.                          *)
(***************************************************************************)
\* a text field that is there and not empty
HasText(schema, key) == Get(schema, key).t = "string" /\ Get(schema, key).v # ""

\* the lines of the text between the opening brace and the line of the field
AnnotationOf(text) ==
  LET lines == LinesOf(text) IN SubSeq(lines, 2, Len(lines) - 2)

\* the lines of description a schema has
DescriptionLines(schema) ==
  IF HasText(schema, "description")
  THEN Len(LinesOf(Get(schema, "description").v)) ELSE 0

C27_AnnotationFollowsDocumentation ==
  (pc = "returned" /\ call.family = "doc")
  => \E field \in {Get(call.schema, "properties").v[1][2]},
        block \in {AnnotationOf(ret.v)},
        indent \in {Repeat("  ", call.depth)} :
       \E examples \in {Get(field, "examples")} :
         /\ block # <<>>
              <=> \/ HasText(field, "title")
                  \/ HasText(field, "description")
                  \/ Has(field, "default")
                  \/ (examples.t = "array" /\ Len(examples.v) >= 1)
         /\ block # <<>>
              => /\ block[1] = indent \o "/**"
                 /\ block[Len(block)] = indent \o " */"
                 /\ Cardinality({i \in 2..(Len(block) - 1) :
                                  ~StartsWith(block[i], indent \o " * @")})
                      = DescriptionLines(field)
                        + (IF /\ HasText(field, "title")
                              /\ Get(field, "title") # Get(field, "description")
                           THEN 1 ELSE 0)
                 /\ (HasText(field, "title")
                     /\ Get(field, "title") # Get(field, "description"))
                      => block[2] = indent \o " * " \o Get(field, "title").v
                 /\ \E shown \in {{i \in 1..Len(block) :
                                     StartsWith(block[i], indent \o " * @example ")}} :
                      IF examples.t = "array" /\ Len(examples.v) >= 1
                      THEN \E i \in 1..Len(block) :
                             /\ shown = {i}
                             /\ block[i] = indent \o " * @example "
                                           \o JSONStringify(examples.v[1])
                      ELSE shown = {}

\* the title repeats the description, and there are two examples
C27_Witness ==
  /\ pc = "returned"
  /\ call.family = "doc"
  /\ call.depth = 1
  /\ ret.v = "{\n  /**\n   * Shown name.\n   * @example \"e1\"\n   */\n  field?: string;\n}"

\* nothing to document: an empty title, an empty list of examples
C27_BareWitness ==
  /\ pc = "returned"
  /\ call.family = "doc"
  /\ call.depth = 1
  /\ Get(call.schema, "properties").v[1][2]
       = JObj(<<<<"type", JStr("string")>>, <<"title", JStr("")>>,
                <<"examples", JArr(<<>>)>>>>)
  /\ ret.v = "{\n  field?: string;\n}"

\* a default of null alone is documented
C27_DefaultWitness ==
  /\ pc = "returned"
  /\ call.family = "doc"
  /\ call.depth = 1
  /\ ret.v = "{\n  /**\n   * @default null\n   */\n  field?: string;\n}"

(***************************************************************************)
(* C29: distinct component keys of the root schema yield distinct declared *)
(* type names: the output never has two type declarations with the same    *)
(* identifier, and no member of the aggregate record refers to the type of *)
(* another component.                                                      *)
(***************************************************************************)
\* the type name a member line of the aggregate record refers to
MemberType(line) ==
  LET at == IndexOf(line, "'?: ")
  IN SubSeq(line, at + 4, Len(line) - 1)

C29_DistinctKeysDistinctNames ==
  (pc = "returned" /\ call.fn = "compile")
  => \E decls \in {DeclarationLines(ret.v)}, members \in {MemberLines(ret.v)} :
       \A i, j \in 1..Len(decls) :
         i # j => /\ ret.components[i].name # ret.components[j].name
                  /\ DeclaredName(decls[i]) # DeclaredName(decls[j])
                  /\ MemberType(members[i]) # DeclaredName(decls[j])

\* the statement of C29 on the root documents whose keys differ in more than
\* their separators
C29_HoldsWithoutSeparatorTwins ==
  (/\ pc = "returned"
   /\ call.fn = "compile"
   /\ ~\E i, j \in 1..Len(ret.components) :
         /\ ret.components[i].name = "minecraft:is_baby"
         /\ ret.components[j].name = "minecraft:is.baby")
  => C29_DistinctKeysDistinctNames

(***************************************************************************)
(* C30: the schema cache is transparent: the type expression (and the      *)
(* documentation) synthesized for a component is the same whether the      *)
(* documents it refers to are already in the cache, loaded for an earlier  *)
(* component, or are loaded for the first time; so the result for a        *)
(* component does not depend on the order the components are processed in. *)
(***************************************************************************)
\* the store of a run that has loaded the root document and nothing else
Cold == Store(CachePut(<<>>, ROOT_SCHEMA, call.context.schema), <<ROOT_SCHEMA>>)

\* the component made of one property of the root on its own
Alone(entry) == ComponentOf(entry[1], entry[2], call.context, Cold)

C30_CacheIsTransparent ==
  (pc = "returned" /\ call.fn = "compile")
  => \E keys \in {RootEntries(call.context.schema)} :
       /\ Len(ret.components) = Len(keys)
       /\ \A i \in 1..Len(keys) :
            \E alone \in {Alone(keys[i])} :
              /\ ~alone.ex
              /\ ret.components[i] = alone.v
              /\ \A p \in DOMAIN alone.st.cache :
                   p \in DOMAIN schemaCache /\ schemaCache[p] = alone.st.cache[p]

\* common.json is read for the first component and found in the cache for
\* the second, health.json is read for the third
C30_Witness ==
  /\ pc = "returned"
  /\ call.fn = "compile"
  /\ Len(ret.components) = 3
  /\ ret.components[1].name = "minecraft:base"
  /\ ret.components[2].name = "minecraft:base_again"
  /\ ret.components[3].name = "minecraft:health"
  /\ ret.components[1].type = ret.components[2].type
  /\ Contains(ret.components[2].type, "id: ")
  /\ reads = <<ROOT_SCHEMA, COMMON_SCHEMA, HEALTH_SCHEMA>>

\* the same components in the opposite order
C30_ReorderedWitness ==
  /\ pc = "returned"
  /\ call.fn = "compile"
  /\ Len(ret.components) = 3
  /\ ret.components[1].name = "minecraft:health"
  /\ ret.components[2].name = "minecraft:base_again"
  /\ ret.components[3].name = "minecraft:base"
  /\ Contains(ret.components[3].type, "id: ")
  /\ reads = <<ROOT_SCHEMA, HEALTH_SCHEMA, COMMON_SCHEMA>>

(***************************************************************************)
(* C22: a custom Pokemon completely overrides the generator: for every     *)
(* name registered in CUSTOM_POKEMON, generateBehavior and                 *)
(* generateAllBehaviors return the output of the custom factory and never  *)
(* an output a template generated, also when the name has an entry in      *)
(* POKEMON_MOVEMENT, and the result of generateAllBehaviors holds exactly  *)
(* one entry for the name.                                                 *)
(***************************************************************************)
Registered == {call.custom[i] : i \in 1..Len(call.custom)}

HasMovement(name) == \E i \in 1..Len(POKEMON_MOVEMENT) : POKEMON_MOVEMENT[i][1] = name

C22_CustomOverridesGenerator ==
  /\ (pc = "returned" /\ call.fn = "generateBehavior"
      /\ ToLowerCase(call.name) \in Registered)
     => /\ ret.out = Factory(ToLowerCase(call.name))
        /\ ret.out.source # "template"
  /\ (pc = "returned" /\ call.fn = "generateAllBehaviors")
     => \A key \in Registered :
          \E i \in 1..Len(ret.behaviors) :
            /\ ret.behaviors[i] = <<key, Factory(key)>>
            /\ \A j \in 1..Len(ret.behaviors) : ret.behaviors[j][1] = key => j = i

\* all behaviors, with arcanine and ditto registered and both in the movement
\* data with type information
C22_Witness ==
  /\ pc = "returned"
  /\ call.fn = "generateAllBehaviors"
  /\ Registered = {"arcanine", "ditto"}
  /\ HasMovement("arcanine") /\ HasMovement("ditto")
  /\ Len(call.typeMap) = 7
  /\ KeysOf(ret.behaviors) = <<"pidgeot", "magikarp", "psyduck", "gastly",
                                "arcanine", "ditto">>
  /\ ret.behaviors[1][2].source = "template"
  /\ ret.behaviors[5][2].source = "custom"

\* one behavior, asked for with a capital letter
C22_SingleWitness ==
  /\ pc = "returned"
  /\ call.fn = "generateBehavior"
  /\ call.name = "Ditto"
  /\ "ditto" \in Registered
  /\ HasMovement("ditto")
  /\ ret.out = [source |-> "custom", typeId |-> "pokemon:ditto"]

(***************************************************************************)
(* C28: in every state of ensureRepoReady the .ready marker exists only if *)
(* the archive was fetched, decompressed and every entry extracted without *)
(* error since the repository directory was last cleared; when the fetch,  *)
(* the stream or an entry fails the call rejects and there is no marker,   *)
(* so the next call downloads again; when the marker exists on entry,      *)
(* nothing is fetched, deleted or written.                                 *)
(***************************************************************************)
\* the numbers of the entries of the archive that are files of the repository
FileEntries ==
  {i \in 1..Len(Archive) :
     /\ Archive[i].type = "file"
     /\ StartsWith(Archive[i].name, ARCHIVE_PREFIX \o "/")
     /\ Len(Archive[i].name) > Len(ARCHIVE_PREFIX) + 1}

\* every file of the archive is in the directory, whole
Complete(disk) ==
  /\ \A i \in FileEntries :
       \E path \in {Slice(Archive[i].name, Len(ARCHIVE_PREFIX) + 1)} :
         /\ path \in DOMAIN disk
         /\ disk[path] = [status |-> "ok", doc |-> Archive[i].data]
  /\ \A path \in DOMAIN disk \ {Marker} : disk[path].status # "malformed"

\* the marker is there only over a whole extraction
MarkerIsEarned ==
  Marker \in DOMAIN files => (Complete(files) /\ call.fetches >= 1)

\* a call that rejected before the marker was due has left none
FailureLeavesNoMarker ==
  (pc = "rejected" /\ ret.cause \in {"fetch", "stream", "entry", "mkdir"})
  => Marker \notin DOMAIN files

\* the first step of a call: without marker it goes on to clear and download,
\* with marker it returns and leaves the directory and the network alone
EntryOfCall ==
  /\ (pc = "access" /\ Marker \notin DOMAIN files /\ pc' # "killed") => pc' = "rm"
  /\ (pc = "access" /\ Marker \in DOMAIN files)
     => (files' = files /\ call'.fetches = call.fetches
         /\ pc' \in {"returned", "killed"})
  /\ (pc = "rm" /\ pc' # "killed") => (files' = <<>> /\ pc' = "mkdir")
  /\ (pc = "fetch" /\ pc' # "killed") => call'.fetches = call.fetches + 1

C28_MarkerMeansComplete ==
  [](MarkerIsEarned /\ FailureLeavesNoMarker) /\ [][EntryOfCall]_vars

\* the first call failed at an entry, the second downloaded again and
\* finished, the third found the marker
C28_Witness ==
  /\ pc = "returned"
  /\ call.n = 3
  /\ call.fetches = 2
  /\ Marker \in DOMAIN files
  /\ files[ROOT_SCHEMA] = [status |-> "ok", doc |-> RootDoc]
  /\ DOMAIN files = {Marker, "source", COMMON_SCHEMA, "source/behavior",
                     "source/behavior/entities", "source/behavior/entities/format",
                     ROOT_SCHEMA}

\* a call that failed while it wrote an entry: a file cut short, no marker
C28_RejectedWitness ==
  /\ pc = "rejected"
  /\ ret.cause = "entry"
  /\ ROOT_SCHEMA \in DOMAIN files
  /\ files[ROOT_SCHEMA].status = "malformed"
  /\ Marker \notin DOMAIN files

====
